---- MODULE Spec2Model ----
(***************************************************************************)
(* Task coordination and persistence engine of src/code/main.py:           *)
(* MainCoordinator.create_task, execute_single_task and                    *)
(* execute_multiple_tasks over the tasks / results / products tables of    *)
(* DatabaseManager, with the platform adapters as external collaborators   *)
(* whose outcome (success, reported failure, exception) is an input.       *)
(*                                                                         *)
(* Storage layer of src/code/database.py: the ConnectionPool with its      *)
(* scoped acquisition, the product methods of DatabaseManager with the     *)
(* validation triggers, create_backup and restore_backup.                  *)
(*                                                                         *)
(* Specifications: Spec (the coordinator), SpecFair (the coordinator with  *)
(* its threads scheduled fairly), SpecProducts (save_products of main.py), *)
(* SpecPool (the connection pool under concurrent callers), SpecStore      *)
(* (the product methods, backup and restore), SpecIntegrator (the pure     *)
(* functions of DataIntegrator), SpecMonitor (record_execution under       *)
(* concurrent callers), SpecScrape (scrape_platform and                    *)
(* scrape_all_platforms with the statistics table and the reports         *)
(* directory), SpecBackup / SpecBackupFair (the auto-backup thread),       *)
(* SpecTx (the product methods statement by statement, with price_history  *)
(* and hot_comments, on concurrent connections) and SpecWait /             *)
(* SpecWaitFair (callers waiting for a pooled connection).                 *)
(***************************************************************************)
EXTENDS Integers, Sequences, FiniteSets, TLC

\* ------------------------------------------------------------------ bounds
MaxTasks == 2        \* create_task calls in one run of the model
MaxItems == 1        \* records in one adapter result, and product ids
MaxRuns == 2         \* execute_single_task calls in one run of the model
MaxWorkers == 2      \* largest max_workers handed to execute_multiple_tasks

\* --------------------------------------------------------- program values
Platforms == {"amazon", "tiktok"}
Categories == {"T-Shirt"}
Terminal == {"success", "failed", "cancelled"}
NoTime == 0 - 1      \* a timestamp field holding None
DefaultMaxRetries == 3

VARIABLES
    now,            \* the clock, in seconds, as last read by create_task
    enabled,        \* AmazonScraper.enabled / TikTokScraper.enabled
    tasks,          \* the ScrapingTask objects, in creation order
    ex,             \* per task object: where its execute_single_task call is
    calls,          \* execute_single_task calls started so far
    tasksTable,     \* table tasks: task_id -> row
    resultsTable,   \* table results: rows in insertion order
    productsTable,  \* table products: product_id -> row
    performance_data, \* PerformanceMonitor.performance_data
    mainpc,         \* what the calling thread is doing
    direct,         \* the task of the caller's own execute_single_task call
    batch,          \* execute_multiple_tasks: the submitted tasks
    maxw,           \* execute_multiple_tasks: max_workers
    fut,            \* execute_multiple_tasks: one future per submitted task
    results,        \* execute_multiple_tasks: the list being collected
    resultsSrc,     \* for each collected Result, the batch position it is of
    saved,          \* per (platform, product_id): the record last stored by
                    \* save_products under that key
    pool_size,      \* database.py: config.connection_pool_size
    pool,           \* which ConnectionPool object self.pool is (1, 2, ...)
    queue,          \* per ConnectionPool object: its _connections queue
    open,           \* the sqlite connections that are not closed
    dirty,          \* the connections with uncommitted changes
    th,             \* per calling thread: its storage call in progress
    shut,           \* DatabaseManager.close() was called
    db,             \* the live database file: products rows, id sequence
    backups,        \* backup_dir: file name -> content of the backup file
    snap,           \* per backup file: what a query of all products
                    \* returned when create_backup wrote it
    integ,          \* the DataIntegrator call: its arguments and its outcome
    mon,            \* per thread: where its record_execution call is
    statisticsTable, \* table statistics: rows in insertion order
    scr,            \* the scrape_platform / scrape_all_platforms call
    bk,             \* the auto-backup thread of database.py
    lastSave,       \* the arguments of the latest save_products call
    reportsDir,     \* the directory reports/ exists
    price_history,  \* table price_history, committed: rows, AUTOINCREMENT
    hot_comments,   \* table hot_comments, committed: product_id per row
    tx              \* per connection with an open transaction: the
                    \* tables as that connection sees them

coordinatorVars ==
    <<now, enabled, tasks, ex, calls, tasksTable, resultsTable, productsTable,
      performance_data, mainpc, direct, batch, maxw, fut, results, resultsSrc>>

\* what the coordinator steps of Next leave alone
poolVars == <<pool_size, pool, queue, open, dirty, th, shut>>
storeVars == <<db, backups, snap>>
txVars == <<price_history, hot_comments, tx>>
laterVars ==
    <<integ, mon, statisticsTable, scr, bk, lastSave, reportsDir, txVars>>
offCoordinator == <<saved, poolVars, storeVars, laterVars>>
\* what the steps of the storage layer leave alone
offStorage == <<coordinatorVars, saved, laterVars>>

vars == <<coordinatorVars, offCoordinator>>

\* ---------------------------------------------------------------- helpers
Put(f, k, v) == [x \in (DOMAIN f) \cup {k} |-> IF x = k THEN v ELSE f[x]]

SortedSeq(S) ==
    CHOOSE s \in [1..Cardinality(S) -> S] :
        \A i, j \in 1..Cardinality(S) : i < j => s[i] < s[j]

\* ScrapingTask(task_id=f"{platform.value}_{category}_{int(time.time())}", ...)
NewTask(p, c, t) ==
    [task_id |-> <<p, c, t>>, platform |-> p, category |-> c,
     retry_count |-> 0, max_retries |-> DefaultMaxRetries,
     status |-> "pending", created_at |-> t, started_at |-> NoTime,
     completed_at |-> NoTime, error_message |-> "", data_count |-> 0]

\* ScrapingResult(task_id, platform, success, data, error_message, items_found)
MkResult(task, ok, data, msg, n) ==
    [task_id |-> task.task_id, platform |-> task.platform, success |-> ok,
     data |-> data, error_message |-> msg, items_found |-> n]

NoResult ==
    [task_id |-> <<>>, platform |-> "", success |-> FALSE, data |-> <<>>,
     error_message |-> "", items_found |-> 0]

\* what an adapter can hand back as data: up to MaxItems product ids
DataChoices == UNION {[1..n -> 1..MaxItems] : n \in 0..MaxItems}

InitEx ==
    [pc |-> "idle", runs |-> 0, scrapes |-> 0, how |-> "none",
     outcome |-> "none", cause |-> "none", result |-> NoResult]

\* INSERT OR REPLACE INTO tasks ... keyed by task_id
SaveTask(table, task) == Put(table, task.task_id, task)

\* a results table keyed by task_id: a second Result of a task replaces the row
SaveResultReplacing(table, r) ==
    LET row == [task_id |-> r.task_id, platform |-> r.platform,
                success |-> r.success, items_found |-> r.items_found] IN
    IF \E k \in DOMAIN table : table[k].task_id = r.task_id
    THEN [k \in DOMAIN table |->
             IF table[k].task_id = r.task_id THEN row ELSE table[k]]
    ELSE Append(table, row)

\* INSERT INTO results ... (append, autoincrement result_id)
SaveResult(table, r) ==
    Append(table, [task_id |-> r.task_id, platform |-> r.platform,
                   success |-> r.success, items_found |-> r.items_found])

\* INSERT OR REPLACE INTO products, one record after the other;
\* product_id is the PRIMARY KEY of the table
RECURSIVE SaveProducts(_, _, _)
SaveProducts(table, data, p) ==
    IF data = <<>> THEN table
    ELSE SaveProducts(Put(table, Head(data), [platform |-> p]), Tail(data), p)

\* an append that puts the sample on a list of its own
RecordExecutionReplacing(samples, p, ok, n) ==
    <<[platform |-> p, success |-> ok, items_count |-> n]>>

\* PerformanceMonitor.record_execution: append one sample
RecordExecution(samples, p, ok, n) ==
    Append(samples, [platform |-> p, success |-> ok, items_count |-> n])

IsIdle == mainpc \in {"idle", "batch_returned"}

\* the locals of execute_multiple_tasks are gone once its caller moves on
DropBatch ==
    /\ batch' = <<>>
    /\ maxw' = 1
    /\ fut' = <<>>
    /\ results' = <<>>
    /\ resultsSrc' = <<>>

\* ------------------------------------------------------------------- Init
InitCoordinator ==
    /\ now = 0
    /\ enabled \in [Platforms -> BOOLEAN]
    /\ tasks = <<>>
    /\ ex = <<>>
    /\ calls = 0
    /\ tasksTable = <<>>
    /\ resultsTable = <<>>
    /\ productsTable = <<>>
    /\ performance_data = <<>>
    /\ mainpc = "idle"
    /\ direct = 0
    /\ batch = <<>>
    /\ maxw = 1
    /\ fut = <<>>
    /\ results = <<>>
    /\ resultsSrc = <<>>

\* no save_products call has stored a record yet
InitSaved == saved = <<>>

\* no DataIntegrator call has been made
InitIntegrator ==
    integ = [op |-> "none", products |-> <<>>, other |-> <<>>,
             platform |-> "amazon", out |-> <<>>]

\* no thread is inside PerformanceMonitor.record_execution
InitMonitor == mon = [done |-> 0, th |-> <<>>]

\* _init_database creates the statistics table empty; no scrape_platform or
\* scrape_all_platforms call has been made
InitStatistics ==
    /\ statisticsTable = <<>>
    /\ scr = [op |-> "none", pc |-> "idle", platform |-> "",
              categories |-> <<>>, first |-> 0, before |-> <<>>, ret |-> <<>>,
              n |-> 0, reported |-> <<>>]

\* enable_auto_backup is off: no backup thread
InitBackupLoop ==
    bk = [pc |-> "off", attempts |-> 0, errors |-> 0, cause |-> "none"]

\* no save_products call has been made
NoSave == [products |-> <<>>, platform |-> ""]
InitLastSave == lastSave = NoSave

\* the working directory has no reports/ directory: nothing of the
\* repository creates it before the first report is written
InitReports == reportsDir = FALSE

\* _init_database creates price_history and hot_comments empty; no
\* connection has an open transaction
InitTx ==
    /\ price_history = [rows |-> <<>>, seq |-> 0]
    /\ hot_comments = <<>>
    /\ tx = <<>>

InitLater ==
    /\ InitIntegrator /\ InitMonitor /\ InitStatistics /\ InitBackupLoop
    /\ InitLastSave /\ InitReports /\ InitTx

\* ----------------------------------------- the storage layer (database.py)
NumThreads == 2      \* threads calling DatabaseManager methods
MaxPoolSize == 2     \* largest connection_pool_size
MaxRestores == 1     \* restore_backup calls that replace the live file
MaxBackups == 1      \* distinct backup file names
MaxUrls == 1         \* distinct product_url values

Threads == 1..NumThreads
BackupNames == 1..MaxBackups
NoConn == <<>>
NoArg == <<>>

Range(q) == {q[i] : i \in DOMAIN q}

\* ConnectionPool.__init__: n connections, created and queued in order; a
\* connection is named by its pool object and its position at creation
NewQueue(g, n) == [k \in 1..n |-> <<g, k>>]

\* a connection taken from the head of the queue and put back at its tail
Rotate(q) == IF q = <<>> THEN q ELSE Append(Tail(q), Head(q))

EmptyDb == [rows |-> <<>>, seq |-> 0]

IdleThread ==
    [pc |-> "idle", op |-> "none", arg |-> NoArg, pool |-> 0, conn |-> NoConn,
     out |-> "none", err |-> "none"]

\* DatabaseManager.__init__ with connection_pool_size = n: the pool is
\* built, _init_database has used one connection and given it back
InitStorage(n) ==
    /\ pool_size = n
    /\ pool = 1
    /\ queue = <<Rotate(NewQueue(1, n))>>
    /\ open = Range(NewQueue(1, n))
    /\ dirty = {}
    /\ th = [t \in Threads |-> IdleThread]
    /\ shut = FALSE
    /\ db = EmptyDb
    /\ backups = <<>>
    /\ snap = <<>>

Init ==
    /\ InitCoordinator
    /\ InitSaved
    /\ InitLater
    /\ InitStorage(1)

\* ---------------------------------------------------------------- actions
\* MainCoordinator.create_task: build the task, save_task, return it.
\* (When save_task raises, no task is returned and nothing is stored.)
\* The clock is read here, in whole seconds, for the task id: since the
\* previous create_task the second has either stayed the same or advanced.
CreateTask(p, c) ==
    /\ IsIdle
    /\ Len(tasks) < MaxTasks
    /\ now' \in {now, now + 1}
    /\ LET task == NewTask(p, c, now') IN
        /\ tasks' = Append(tasks, task)
        /\ ex' = Append(ex, InitEx)
        /\ tasksTable' = SaveTask(tasksTable, task)
    /\ mainpc' = "idle"
    /\ DropBatch
    /\ UNCHANGED <<enabled, calls, resultsTable, productsTable,
                   performance_data, direct>>

\* the calling thread awaits execute_single_task(task) itself
DirectCall(t) ==
    /\ IsIdle
    /\ t \in DOMAIN tasks
    /\ calls < MaxRuns
    /\ calls' = calls + 1
    /\ mainpc' = "direct"
    /\ direct' = t
    /\ ex' = [ex EXCEPT ![t] = [@ EXCEPT !.pc = "begin", !.runs = @ + 1,
                                         !.how = "none", !.outcome = "none",
                                         !.cause = "none",
                                         !.result = NoResult]]
    /\ DropBatch
    /\ UNCHANGED <<now, enabled, tasks, tasksTable, resultsTable, productsTable,
                   performance_data>>

\* the end of an execute_single_task call, seen by whoever runs it:
\* the awaiting caller, or the pool thread whose future completes
Notify(t, oc, r) ==
    IF direct = t
    THEN /\ direct' = 0
         /\ mainpc' = "idle"
         /\ UNCHANGED fut
    ELSE LET i == CHOOSE j \in DOMAIN fut :
                      fut[j].state = "running" /\ batch[j] = t IN
         /\ fut' = [fut EXCEPT ![i] =
                        [state |-> oc, result |-> r, collected |-> FALSE]]
         /\ UNCHANGED <<direct, mainpc>>

\* an exception leaves execute_single_task; cause names the call that threw
Raise(t, cause) ==
    /\ ex' = [ex EXCEPT ![t] = [@ EXCEPT !.pc = "idle", !.outcome = "raised",
                                         !.cause = cause]]
    /\ Notify(t, "raised", NoResult)

\* lines 684-686: status = RUNNING, started_at = now, save_task
ExecStart(t) ==
    /\ t \in DOMAIN tasks
    /\ ex[t].pc = "begin"
    /\ tasks' = [tasks EXCEPT ![t] = [@ EXCEPT !.status = "running",
                                               !.started_at = now]]
    /\ \E ok \in BOOLEAN :
        IF ok
        THEN /\ tasksTable' = SaveTask(tasksTable, tasks'[t])
             /\ ex' = [ex EXCEPT ![t] = [@ EXCEPT !.pc = "check"]]
             /\ UNCHANGED <<mainpc, direct, fut>>
        ELSE /\ Raise(t, "save_task_running")
             /\ UNCHANGED tasksTable
    /\ UNCHANGED <<now, enabled, calls, resultsTable, productsTable,
                   performance_data, batch, maxw, results, resultsSrc>>

\* an except branch that marks the task for another attempt
OnExceptionRetrying(task, msg) ==
    [task EXCEPT !.status = "retrying", !.retry_count = @ + 1,
                 !.error_message = msg]

\* lines 713-724: the except branch of execute_single_task
OnException(task, msg) ==
    [task EXCEPT !.status = "failed", !.completed_at = now,
                 !.error_message = msg]

\* a scraper that ignores its enabled flag
PlatformDisabledIgnored(task) == FALSE

\* lines 690-696: "if not self.<platform>_scraper.enabled"
PlatformDisabled(task) == ~enabled[task.platform]

\* lines 688-699: choose the scraper; a disabled platform raises inside the
\* try block, an enabled one has its scrape invoked
ExecDispatch(t) ==
    /\ t \in DOMAIN tasks
    /\ ex[t].pc = "check"
    /\ IF PlatformDisabled(tasks[t])
       THEN /\ tasks' = [tasks EXCEPT ![t] = OnException(@, "not enabled")]
            /\ ex' = [ex EXCEPT ![t] = [@ EXCEPT
                        !.pc = "persist", !.how = "disabled",
                        !.result = MkResult(tasks[t], FALSE, <<>>,
                                            "not enabled", 0)]]
       ELSE /\ ex' = [ex EXCEPT ![t] = [@ EXCEPT !.pc = "scraping",
                                                 !.scrapes = @ + 1]]
            /\ UNCHANGED tasks
    /\ UNCHANGED <<now, enabled, calls, tasksTable, resultsTable, productsTable,
                   performance_data, mainpc, direct, batch, maxw, fut,
                   results, resultsSrc>>

\* lines 701-711: the adapter returned a ScrapingResult r
OnResult(task, r) ==
    [task EXCEPT !.status = IF r.success THEN "success" ELSE "failed",
                 !.completed_at = now,
                 !.data_count = r.items_found,
                 !.error_message = IF r.success THEN @ ELSE r.error_message]

ScrapeFrame ==
    UNCHANGED <<now, enabled, calls, tasksTable, resultsTable, productsTable,
                mainpc, direct, batch, maxw, fut, results, resultsSrc>>

\* the awaited scrape returns a ScrapingResult: a successful one with data
\* d, or one that reports failure; lines 701-711 follow
ScrapeReturnsResult(t) ==
    /\ t \in DOMAIN tasks
    /\ ex[t].pc = "scraping"
    /\ \E r \in {MkResult(tasks[t], TRUE, d, "", Len(d)) : d \in DataChoices}
              \cup {MkResult(tasks[t], FALSE, <<>>, "scrape failed", 0)} :
        /\ tasks' = [tasks EXCEPT ![t] = OnResult(@, r)]
        /\ ex' = [ex EXCEPT ![t] = [@ EXCEPT
                    !.pc = "persist",
                    !.how = IF r.success THEN "success" ELSE "failure",
                    !.result = r]]
        /\ performance_data' = RecordExecution(performance_data, r.platform,
                                               r.success, r.items_found)
    /\ ScrapeFrame

\* an adapter exception that is not caught by execute_single_task
ScrapeRaisesUncaught(t) ==
    /\ t \in DOMAIN tasks
    /\ ex[t].pc = "scraping"
    /\ ex' = [ex EXCEPT ![t] = [@ EXCEPT !.pc = "idle", !.how = "raised",
                                         !.outcome = "raised",
                                         !.cause = "scrape"]]
    /\ Notify(t, "raised", NoResult)
    /\ UNCHANGED <<now, enabled, calls, tasks, tasksTable, resultsTable,
                   productsTable, performance_data, batch, maxw, results,
                   resultsSrc>>

\* the awaited scrape raises: the except branch, lines 713-724, turns the
\* exception into a failed task and a failed Result
ScrapeRaises(t) ==
    /\ t \in DOMAIN tasks
    /\ ex[t].pc = "scraping"
    /\ tasks' = [tasks EXCEPT ![t] = OnException(@, "scrape raised")]
    /\ ex' = [ex EXCEPT ![t] = [@ EXCEPT
                !.pc = "persist", !.how = "raised",
                !.result = MkResult(tasks[t], FALSE, <<>>, "scrape raised", 0)]]
    /\ UNCHANGED performance_data
    /\ ScrapeFrame

\* line 726: save_task(task) after the try block
ExecSaveTask(t) ==
    /\ t \in DOMAIN tasks
    /\ ex[t].pc = "persist"
    /\ \E ok \in BOOLEAN :
        IF ok
        THEN /\ tasksTable' = SaveTask(tasksTable, tasks[t])
             /\ ex' = [ex EXCEPT ![t] = [@ EXCEPT !.pc = "persist_result"]]
             /\ UNCHANGED <<mainpc, direct, fut>>
        ELSE /\ Raise(t, "save_task_final")
             /\ UNCHANGED tasksTable
    /\ UNCHANGED <<now, enabled, calls, tasks, resultsTable, productsTable,
                   performance_data, batch, maxw, results, resultsSrc>>

\* line 727: save_result(result)
ExecSaveResult(t) ==
    /\ t \in DOMAIN tasks
    /\ ex[t].pc = "persist_result"
    /\ \E ok \in BOOLEAN :
        IF ok
        THEN /\ resultsTable' = SaveResult(resultsTable, ex[t].result)
             /\ ex' = [ex EXCEPT ![t] = [@ EXCEPT !.pc = "products"]]
             /\ UNCHANGED <<mainpc, direct, fut>>
        ELSE /\ Raise(t, "save_result")
             /\ UNCHANGED resultsTable
    /\ UNCHANGED <<now, enabled, calls, tasks, tasksTable, productsTable,
                   performance_data, batch, maxw, results, resultsSrc>>

\* lines 729-734: save_products on success with data, then return result
ExecReturn(t) ==
    /\ t \in DOMAIN tasks
    /\ ex[t].pc = "products"
    /\ LET r == ex[t].result IN
       \E ok \in BOOLEAN :
        IF r.success /\ r.data # <<>> /\ ~ok
        THEN /\ Raise(t, "save_products")
             /\ UNCHANGED productsTable
        ELSE /\ productsTable' =
                  IF r.success /\ r.data # <<>>
                  THEN SaveProducts(productsTable, r.data, tasks[t].platform)
                  ELSE productsTable
             /\ ex' = [ex EXCEPT ![t] = [@ EXCEPT !.pc = "idle",
                                                  !.outcome = "returned"]]
             /\ Notify(t, "returned", r)
    /\ UNCHANGED <<now, enabled, calls, tasks, tasksTable, resultsTable,
                   performance_data, batch, maxw, results, resultsSrc>>

\* execute_multiple_tasks, lines 739-746: one future per task is submitted
\* to a ThreadPoolExecutor(max_workers)
ExecuteMultiple(S, m) ==
    /\ IsIdle
    /\ S # {}
    /\ S \subseteq DOMAIN tasks
    /\ calls + Cardinality(S) <= MaxRuns
    /\ mainpc' = "batch"
    /\ batch' = SortedSeq(S)
    /\ maxw' = m
    /\ fut' = [i \in 1..Cardinality(S) |->
                 [state |-> "queued", result |-> NoResult, collected |-> FALSE]]
    /\ results' = <<>>
    /\ resultsSrc' = <<>>
    /\ UNCHANGED <<now, enabled, calls, tasks, ex, tasksTable, resultsTable,
                   productsTable, performance_data, direct>>

\* a pool thread that runs no work item (the pool has at most max_workers
\* threads, each running one item at a time) takes the oldest queued item
\* and starts asyncio.run(execute_single_task(task)) for it
WorkerTake ==
    /\ mainpc = "batch"
    /\ Cardinality({j \in DOMAIN fut : fut[j].state = "running"}) < maxw
    /\ \E i \in DOMAIN fut :
        /\ fut[i].state = "queued"
        /\ \A j \in DOMAIN fut : fut[j].state = "queued" => i <= j
        /\ calls' = calls + 1
        /\ fut' = [fut EXCEPT ![i] = [@ EXCEPT !.state = "running"]]
        /\ ex' = [ex EXCEPT ![batch[i]] =
                    [@ EXCEPT !.pc = "begin", !.runs = @ + 1, !.how = "none",
                              !.outcome = "none", !.cause = "none",
                              !.result = NoResult]]
    /\ UNCHANGED <<now, enabled, tasks, tasksTable, resultsTable, productsTable,
                   performance_data, mainpc, direct, batch, maxw, results,
                   resultsSrc>>

\* a collection loop that loses the Result of a future that raised
CollectedLosingRaised(i) ==
    IF fut[i].state = "returned" THEN Append(results, fut[i].result)
    ELSE results

\* lines 751-762: results after future i was yielded: future.result(), or
\* the failed Result built from the exception it raised
Collected(i) ==
    Append(results,
           IF fut[i].state = "returned"
           THEN fut[i].result
           ELSE MkResult(tasks[batch[i]], FALSE, <<>>, "exception", 0))

\* a collection loop that is never handed a future that raised
CollectReturnedOnly(i) ==
    /\ mainpc = "batch"
    /\ i \in DOMAIN fut
    /\ fut[i].state = "returned"
    /\ ~fut[i].collected
    /\ results' = Collected(i)
    /\ resultsSrc' = Append(resultsSrc, i)
    /\ fut' = [fut EXCEPT ![i] = [@ EXCEPT !.collected = TRUE]]
    /\ UNCHANGED <<now, enabled, calls, tasks, ex, tasksTable, resultsTable,
                   productsTable, performance_data, mainpc, direct, batch,
                   maxw>>

\* lines 749-762: as_completed yields a finished future; its result, or a
\* failed Result built from its exception, is appended
Collect(i) ==
    /\ mainpc = "batch"
    /\ i \in DOMAIN fut
    /\ fut[i].state \in {"returned", "raised"}
    /\ ~fut[i].collected
    /\ results' = Collected(i)
    /\ resultsSrc' = Append(resultsSrc, i)
    /\ fut' = [fut EXCEPT ![i] = [@ EXCEPT !.collected = TRUE]]
    /\ UNCHANGED <<now, enabled, calls, tasks, ex, tasksTable, resultsTable,
                   productsTable, performance_data, mainpc, direct, batch,
                   maxw>>

\* line 764: every future was yielded, the executor is shut down, return
BatchReturn ==
    /\ mainpc = "batch"
    /\ \A i \in DOMAIN fut : fut[i].collected
    /\ mainpc' = "batch_returned"
    /\ UNCHANGED <<now, enabled, calls, tasks, ex, tasksTable, resultsTable,
                   productsTable, performance_data, direct, batch, maxw, fut,
                   results, resultsSrc>>

Next ==
    \/ (\E p \in Platforms, c \in Categories : CreateTask(p, c)) /\ UNCHANGED offCoordinator
    \/ (\E t \in 1..MaxTasks : DirectCall(t)) /\ UNCHANGED offCoordinator
    \/ (\E t \in 1..MaxTasks : ExecStart(t)) /\ UNCHANGED offCoordinator
    \/ (\E t \in 1..MaxTasks : ExecDispatch(t)) /\ UNCHANGED offCoordinator
    \/ (\E t \in 1..MaxTasks : ScrapeReturnsResult(t)) /\ UNCHANGED offCoordinator
    \/ (\E t \in 1..MaxTasks : ScrapeRaises(t)) /\ UNCHANGED offCoordinator
    \/ (\E t \in 1..MaxTasks : ExecSaveTask(t)) /\ UNCHANGED offCoordinator
    \/ (\E t \in 1..MaxTasks : ExecSaveResult(t)) /\ UNCHANGED offCoordinator
    \/ (\E t \in 1..MaxTasks : ExecReturn(t)) /\ UNCHANGED offCoordinator
    \/ (\E S \in SUBSET (1..MaxTasks), m \in 1..MaxWorkers : ExecuteMultiple(S, m)) /\ UNCHANGED offCoordinator
    \/ (WorkerTake) /\ UNCHANGED offCoordinator
    \/ (\E i \in 1..MaxTasks : Collect(i)) /\ UNCHANGED offCoordinator
    \/ (BatchReturn) /\ UNCHANGED offCoordinator

Spec == Init /\ [][Next]_vars

\* the steps of the pool threads and of the collecting loop: every step of a
\* started execute_single_task call (the adapter's scrape returning or
\* raising among them), a free pool thread taking the next submitted task,
\* as_completed yielding a finished future, and the return
Progress ==
    /\ \/ \E t \in 1..MaxTasks :
             \/ ExecStart(t)
             \/ ExecDispatch(t)
             \/ ScrapeReturnsResult(t)
             \/ ScrapeRaises(t)
             \/ ExecSaveTask(t)
             \/ ExecSaveResult(t)
             \/ ExecReturn(t)
       \/ WorkerTake
       \/ \E i \in 1..MaxTasks : Collect(i)
       \/ BatchReturn
    /\ UNCHANGED offCoordinator

\* threads that can run do run, and an adapter call in progress ends
SpecFair == Spec /\ WF_vars(Progress)

\* ------------------------------------------------------------------ claims
Forward(a, b) ==
    \/ a = b
    \/ a = "pending" /\ b = "running"
    \/ a = "running" /\ b \in Terminal

\* how often task id `id` occurs among the task_id fields of sequence `seq`
CountId(seq, id) == Cardinality({k \in DOMAIN seq : seq[k].task_id = id})

\* C1: no step moves the status of a task other than forward along
\* PENDING -> RUNNING -> {SUCCESS, FAILED, CANCELLED}, also when the task is
\* executed more than once.
C1_StatusOnlyForward ==
    [][\A t \in DOMAIN tasks : Forward(tasks[t].status, tasks'[t].status)]_vars

\* C2: in every state, completed_at of a task is set if and only if its
\* status is SUCCESS, FAILED or CANCELLED.
C2_CompletedIffTerminal ==
    \A t \in DOMAIN tasks :
        (tasks[t].completed_at # NoTime) <=> (tasks[t].status \in Terminal)

\* C3 as stated: no execute_single_task call ever ends by raising, whatever
\* the adapter and the persistence calls do.
C3_NeverRaises ==
    \A t \in DOMAIN ex : ex[t].outcome # "raised"

\* C3 as amended: a call raises only when one of its persistence calls
\* (save_task, save_result, save_products) failed; every other call returns
\* a Result of its task, with success=False whenever the platform was
\* disabled, the adapter reported failure or the adapter raised.
C3_RaisesOnlyOnPersistenceFailure ==
    \A t \in DOMAIN ex :
        /\ ex[t].outcome = "raised" =>
              ex[t].cause \in {"save_task_running", "save_task_final",
                               "save_result", "save_products"}
        /\ ex[t].outcome = "returned" =>
              /\ ex[t].cause = "none"
              /\ ex[t].result.task_id = tasks[t].task_id
              /\ ex[t].how \in {"disabled", "failure", "raised", "success"}
              /\ ex[t].how # "success" => ~ex[t].result.success

\* a call whose adapter raised has returned a failed Result
C3_Witness ==
    \E t \in DOMAIN ex :
        /\ ex[t].outcome = "returned"
        /\ ex[t].how = "raised"
        /\ ~ex[t].result.success

\* C4: when execute_multiple_tasks returns, it returns one Result per
\* submitted task (as many Results as tasks, the same task_ids as often);
\* the Result of a task whose execution raised has success=False, and the
\* Result of every other task is the one its execute_single_task returned.
C4_OneResultPerTask ==
    mainpc = "batch_returned" =>
        /\ Len(results) = Len(batch)
        /\ Len(resultsSrc) = Len(batch)
        /\ \A i \in DOMAIN batch :
              Cardinality({k \in DOMAIN resultsSrc : resultsSrc[k] = i}) = 1
        /\ \A i \in DOMAIN batch :
              CountId(results, tasks[batch[i]].task_id)
                = Cardinality({j \in DOMAIN batch :
                      tasks[batch[j]].task_id = tasks[batch[i]].task_id})
        /\ \A k \in DOMAIN results :
              LET i == resultsSrc[k] IN
              /\ results[k].task_id = tasks[batch[i]].task_id
              /\ fut[i].state = "raised" => ~results[k].success
              /\ fut[i].state = "returned" =>
                    results[k] = ex[batch[i]].result

\* a returned batch in which one task raised and a sibling succeeded
C4_Witness ==
    /\ mainpc = "batch_returned"
    /\ \E i, j \in DOMAIN batch :
        /\ fut[i].state = "raised"
        /\ fut[j].state = "returned"
        /\ fut[j].result.success

\* a submitted task has a Result once its call returned one or the
\* collection loop built one from its exception
HasResult(i) == fut[i].state = "returned" \/ fut[i].collected

\* C5: during execute_multiple_tasks at most max_workers of the submitted
\* tasks have status RUNNING without a Result yet.
C5_AtMostMaxWorkersRunning ==
    mainpc = "batch" =>
        Cardinality({i \in DOMAIN batch :
            tasks[batch[i]].status = "running" /\ ~HasResult(i)}) <= maxw

\* C6: the status stored in the tasks table for a task_id only moves
\* forward: PENDING, then RUNNING, then one of SUCCESS or FAILED.
C6_StoredStatusOnlyForward ==
    [][\A id \in DOMAIN tasksTable :
          Forward(tasksTable[id].status, tasksTable'[id].status)]_vars

\* C7: any two create_task calls return different task_ids, and the tasks
\* table holds one row per create_task call.
C7_TaskIdsUnique ==
    /\ \A t1, t2 \in DOMAIN tasks :
          t1 # t2 => tasks[t1].task_id # tasks[t2].task_id
    /\ Cardinality(DOMAIN tasksTable) = Len(tasks)

\* C8: after every execute_single_task call that returned, data_count of
\* the task equals items_found of the Result that call returned.
C8_DataCountIsItemsFound ==
    \A t \in DOMAIN tasks :
        (ex[t].pc = "idle" /\ ex[t].outcome = "returned") =>
            tasks[t].data_count = ex[t].result.items_found

\* C9: when execute_multiple_tasks returns, every submitted task has the
\* terminal status of its returned Result: SUCCESS for success=True, FAILED
\* for success=False.
C9_StatusAgreesWithResult ==
    mainpc = "batch_returned" =>
        \A k \in DOMAIN results :
            tasks[batch[resultsSrc[k]]].status
                = IF results[k].success THEN "success" ELSE "failed"

C13_ResultsAppendOnly ==
    [][/\ \/ resultsTable' = resultsTable
          \/ \E t \in DOMAIN tasks :
                /\ ex[t].pc = "persist_result"
                /\ ex'[t].pc = "products"
                /\ Len(resultsTable') = Len(resultsTable) + 1
                /\ SubSeq(resultsTable', 1, Len(resultsTable)) = resultsTable
                /\ resultsTable'[Len(resultsTable')].task_id = tasks[t].task_id
       /\ \A t \in DOMAIN ex :
             /\ (ex[t].pc # "products" /\ ex'[t].pc = "products") =>
                   Len(resultsTable') = Len(resultsTable) + 1
             /\ (ex[t].outcome # "returned" /\ ex'[t].outcome = "returned") =>
                   ex[t].pc = "products"]_vars

\* a task was executed twice, both calls returned, and the table holds a row
\* for each of the two executions
C13_Witness ==
    \E t \in DOMAIN tasks :
        /\ ex[t].runs = 2
        /\ ex[t].outcome = "returned"
        /\ Len(resultsTable) = 2
        /\ CountId(resultsTable, tasks[t].task_id) = 2

\* C20: whenever execute_multiple_tasks has submitted its tasks, it
\* eventually returns, with one Result for every submitted task, whatever
\* the number of tasks and of pool threads and however the calls end.
C20_BatchTerminates ==
    (mainpc = "batch") ~>
        (mainpc = "batch_returned" /\ Len(results) = Len(batch))

\* two tasks went through a pool of one thread, one of the two calls
\* raised, and execute_multiple_tasks has returned
C20_Witness ==
    /\ mainpc = "batch_returned"
    /\ Len(batch) = 2
    /\ maxw = 1
    /\ \E i \in DOMAIN fut : fut[i].state = "raised"
    /\ Len(results) = 2

\* ------------------------------------------- the products table (main.py)
\* DatabaseManager.save_products on its own: every call, with every batch of
\* records, in every order; the coordinator is at rest.
MaxProductIds == 2   \* distinct product_id values handed to save_products
MaxBatch == 2        \* records in one save_products call

Titles == {"shirt", "hoodie"}
NoTitle == "None"    \* a record whose 'title' is None

ProductRecords == [product_id : 1..MaxProductIds, title : Titles \cup {NoTitle}]

ProductBatches == UNION {[1..n -> ProductRecords] : n \in 1..MaxBatch}

\* lines 336-358: one INSERT OR REPLACE. title is NOT NULL: a None title is
\* an IntegrityError, which the loop logs and skips. product_id is the
\* PRIMARY KEY, so the row that holds this product_id, of whatever platform,
\* is the one replaced.
StoresRecord(product) == product.title # NoTitle

InsertOrReplace(table, product, p) ==
    IF StoresRecord(product)
    THEN Put(table, product.product_id,
             [platform |-> p, title |-> product.title])
    ELSE table

\* a loop that gives up at the first record whose INSERT fails
RECURSIVE SaveProductRecordsUntilFailure(_, _, _)
SaveProductRecordsUntilFailure(table, products, p) ==
    IF products = <<>> \/ ~StoresRecord(Head(products)) THEN table
    ELSE SaveProductRecordsUntilFailure(
             InsertOrReplace(table, Head(products), p), Tail(products), p)

\* lines 334-361: the loop over the records, then commit
RECURSIVE SaveProductRecords(_, _, _)
SaveProductRecords(table, products, p) ==
    IF products = <<>> THEN table
    ELSE SaveProductRecords(InsertOrReplace(table, Head(products), p),
                            Tail(products), p)

\* the records a call stored, remembered under the key (platform, product_id)
RECURSIVE Remember(_, _, _)
Remember(mem, products, p) ==
    IF products = <<>> THEN mem
    ELSE Remember(IF StoresRecord(Head(products))
                  THEN Put(mem, <<p, Head(products).product_id>>,
                           Head(products))
                  ELSE mem,
                  Tail(products), p)

\* DatabaseManager.save_products(products, platform)
SaveProductsCall(products, p) ==
    /\ productsTable' = SaveProductRecords(productsTable, products, p)
    /\ saved' = Remember(saved, products, p)
    /\ lastSave' = [products |-> products, platform |-> p]
    /\ UNCHANGED <<now, enabled, tasks, ex, calls, tasksTable, resultsTable,
                   performance_data, mainpc, direct, batch, maxw, fut, results,
                   resultsSrc, poolVars, storeVars, integ, mon,
                   statisticsTable, scr, bk, reportsDir, txVars>>

NextProducts ==
    \E products \in ProductBatches, p \in Platforms :
        SaveProductsCall(products, p)

SpecProducts == Init /\ [][NextProducts]_vars

\* C11: after any sequence of save_products calls the products table holds
\* exactly one row for every (platform, product_id) that was ever saved, that
\* row carries the values of the latest save of the key, and there is no
\* other row.
C11_OneRowPerKeyLatestValues ==
    /\ \A k \in DOMAIN saved :
          /\ k[2] \in DOMAIN productsTable
          /\ productsTable[k[2]].platform = k[1]
          /\ productsTable[k[2]].title = saved[k].title
    /\ \A id \in DOMAIN productsTable :
          <<productsTable[id].platform, id>> \in DOMAIN saved

\* C12: a save never touches a stored product of another platform: whenever
\* a step changes or removes the row stored under a product_id, the row was
\* of the platform being saved, so the row there afterwards is of the same
\* platform.
C12_OtherPlatformsUntouched ==
    [][\A id \in DOMAIN productsTable :
          /\ id \in DOMAIN productsTable'
          /\ productsTable'[id] # productsTable[id] =>
                productsTable'[id].platform = productsTable[id].platform]_vars

\* record i of the latest batch was accepted by its INSERT OR REPLACE and no
\* later record of the batch replaced it
LastStored(i) ==
    /\ StoresRecord(lastSave.products[i])
    /\ \A j \in DOMAIN lastSave.products :
          (j > i /\ StoresRecord(lastSave.products[j])) =>
             lastSave.products[j].product_id # lastSave.products[i].product_id

\* C31: a record whose INSERT fails does not stop the batch: after
\* save_products has returned, every record of the batch that its INSERT
\* accepted is in the products table with its values (unless a later record
\* of the same batch replaced it), wherever in the batch the failing record
\* was.
C31_FailingRecordSkipped ==
    \A i \in DOMAIN lastSave.products :
        LastStored(i) =>
           /\ lastSave.products[i].product_id \in DOMAIN productsTable
           /\ productsTable[lastSave.products[i].product_id] =
                 [platform |-> lastSave.platform,
                  title |-> lastSave.products[i].title]

\* the first record of a batch of two failed, the second one, of another
\* product_id, is stored
C31_Witness ==
    /\ Len(lastSave.products) = 2
    /\ ~StoresRecord(lastSave.products[1])
    /\ StoresRecord(lastSave.products[2])
    /\ lastSave.products[2].product_id # lastSave.products[1].product_id
    /\ lastSave.products[2].product_id \in DOMAIN productsTable
    /\ productsTable[lastSave.products[2].product_id].title =
          lastSave.products[2].title

\* ------------------------------------------ the connection pool (database.py)
\* the storage methods whose except clause re-raises, and those whose except
\* clause logs and returns an empty list
Raising ==
    {"insert_product", "update_product_price", "delete_product",
     "insert_hot_comment", "insert_scrape_log", "create_backup"}
Swallowing ==
    {"get_products", "get_hot_comments", "get_price_history",
     "get_scrape_logs"}
Writing == Raising \ {"create_backup"}
Methods == Raising \cup Swallowing

\* what the method hands its caller when its with-block raised
OnError(op) == IF op \in Swallowing THEN "empty_list" ELSE "raised"

\* get_connection, finally: put_nowait(conn); a full queue closes it instead
PutBack(q, c) == IF Len(q) < pool_size THEN Append(q, c) ELSE q

Held == {th[t].conn : t \in Threads} \ {NoConn}

\* get_products: the rows with is_active = 1 (fewer than the default limit)
Query(d) ==
    {[id |-> i, row |-> d.rows[i]] : i \in {j \in DOMAIN d.rows : d.rows[j].active}}

\* a storage method is entered: self.pool.get_connection() is evaluated
Call(t, op) ==
    /\ th[t].pc = "idle"
    /\ th' = [th EXCEPT ![t] = [IdleThread EXCEPT !.pc = "acquire", !.op = op,
                                                  !.pool = pool]]
    /\ UNCHANGED <<pool_size, pool, queue, open, dirty, shut, storeVars>>

\* a get that hands out the head of the queue and leaves it on the queue
AcquirePeek(t) ==
    /\ th[t].pc = "acquire"
    /\ queue[th[t].pool] # <<>>
    /\ th' = [th EXCEPT ![t] = [@ EXCEPT !.pc = "body",
                                         !.conn = Head(queue[th[t].pool])]]
    /\ UNCHANGED <<pool_size, pool, queue, open, dirty, shut, storeVars>>

\* a get without a timeout: with the queue empty the caller keeps waiting
AcquireBlocking(t) ==
    /\ th[t].pc = "acquire"
    /\ queue[th[t].pool] = <<>>
    /\ UNCHANGED <<th, pool_size, pool, queue, open, dirty, shut, storeVars>>

\* line 85: _connections.get returns the connection at the head of the queue
Acquire(t) ==
    /\ th[t].pc = "acquire"
    /\ queue[th[t].pool] # <<>>
    /\ th' = [th EXCEPT ![t] = [@ EXCEPT !.pc = "body",
                                         !.conn = Head(queue[th[t].pool])]]
    /\ queue' = [queue EXCEPT ![th[t].pool] = Tail(@)]
    /\ UNCHANGED <<pool_size, pool, open, dirty, shut, storeVars>>

\* lines 85-89: the queue stayed empty for the whole timeout: Empty becomes
\* RuntimeError, which reaches the except clause of the method
AcquireTimeout(t) ==
    /\ th[t].pc = "acquire"
    /\ queue[th[t].pool] = <<>>
    /\ th' = [th EXCEPT ![t] = [@ EXCEPT !.pc = "idle", !.err = "exhausted",
                                         !.out = OnError(th[t].op)]]
    /\ UNCHANGED <<pool_size, pool, queue, open, dirty, shut, storeVars>>

\* the with-block of a writing method has executed a statement and has not
\* committed yet
Execute(t) ==
    /\ th[t].pc = "body"
    /\ th[t].op \in Writing
    /\ dirty = {}       \* sqlite admits one write transaction at a time
    /\ th' = [th EXCEPT ![t] = [@ EXCEPT !.pc = "executed"]]
    /\ dirty' = dirty \cup {th[t].conn}
    /\ UNCHANGED <<pool_size, pool, queue, open, shut, storeVars>>

\* a get_connection scope that forgets the connection when its body raised
ReleaseLeaking(t, raised) ==
    /\ queue' = IF raised THEN queue
                ELSE [queue EXCEPT ![th[t].pool] = PutBack(@, th[t].conn)]
    /\ open' = open
    /\ dirty' = dirty \ {th[t].conn}

\* lines 90-101: leaving the get_connection scope: rollback when the body
\* raised (the body has committed otherwise), then the connection goes back
\* on the queue it was taken from, or is closed when that queue is full
Release(t, raised) ==
    /\ queue' = [queue EXCEPT ![th[t].pool] = PutBack(@, th[t].conn)]
    /\ open' = IF Len(queue[th[t].pool]) < pool_size THEN open
               ELSE open \ {th[t].conn}
    /\ dirty' = dirty \ {th[t].conn}

\* the with-block ends normally (a writing method has committed) and the
\* method returns; create_backup has written its backup file by then
ExitOk(t) ==
    /\ \/ th[t].pc = "body" /\ th[t].op \notin Writing
       \/ th[t].pc = "executed"
    /\ Release(t, FALSE)
    /\ th' = [th EXCEPT ![t] = [@ EXCEPT !.pc = "idle", !.conn = NoConn,
                                         !.out = "returned"]]
    /\ IF th[t].op = "create_backup"
       THEN \E name \in BackupNames :
              /\ backups' = Put(backups, name, db)
              /\ snap' = Put(snap, name, Query(db))
              /\ UNCHANGED db
       ELSE UNCHANGED storeVars
    /\ UNCHANGED <<pool_size, pool, shut>>

\* a statement of the with-block (or the commit) raises: a violated
\* constraint for a writing method, any other sqlite error for the others
ExitRaise(t) ==
    /\ th[t].pc \in {"body", "executed"}
    /\ Release(t, TRUE)
    /\ th' = [th EXCEPT ![t] =
                [@ EXCEPT !.pc = "idle", !.conn = NoConn,
                          !.err = IF th[t].op \in Writing THEN "constraint"
                                  ELSE "sqlite_error",
                          !.out = OnError(th[t].op)]]
    /\ UNCHANGED <<pool_size, pool, shut, storeVars>>

\* restore_backup, lines 786-797 for an existing backup file: the idle
\* connections of the pool are closed, the backup is copied over the live
\* file, self.pool becomes a new ConnectionPool. The live database is in WAL
\* mode (line 76): while a connection to it is still open its -wal and -shm
\* files stay, and the new connections read the copied file through them,
\* so what the restored database holds is then either content.
Restored(name) ==
    LET stale == open \ Range(queue[pool]) IN
    /\ open' = stale \cup Range(NewQueue(pool + 1, pool_size))
    /\ queue' = Append([queue EXCEPT ![pool] = <<>>],
                       NewQueue(pool + 1, pool_size))
    /\ pool' = pool + 1
    /\ db' \in IF stale = {} THEN {backups[name]} ELSE {backups[name], db}

\* DatabaseManager.restore_backup(backup_path)
RestoreBackup(t, name) ==
    /\ th[t].pc = "idle"
    /\ pool <= MaxRestores
    /\ IF name \in DOMAIN backups
       THEN /\ Restored(name)
            /\ th' = [th EXCEPT ![t] = [IdleThread EXCEPT
                        !.op = "restore_backup", !.arg = name,
                        !.out = "returned"]]
       ELSE /\ th' = [th EXCEPT ![t] = [IdleThread EXCEPT
                        !.op = "restore_backup", !.arg = name,
                        !.err = "no_file", !.out = "raised"]]
            /\ UNCHANGED <<pool, queue, open, db>>
    /\ UNCHANGED <<pool_size, dirty, shut, backups, snap>>

\* DatabaseManager.close(): the idle connections of the pool are closed
Close(t) ==
    /\ th[t].pc = "idle"
    /\ ~shut
    /\ shut' = TRUE
    /\ open' = open \ Range(queue[pool])
    /\ queue' = [queue EXCEPT ![pool] = <<>>]
    /\ th' = [th EXCEPT ![t] = [IdleThread EXCEPT !.op = "close",
                                                  !.out = "returned"]]
    /\ UNCHANGED <<pool_size, pool, dirty, storeVars>>

\* the coordinator of main.py is at rest, its adapters enabled
InitPool ==
    /\ InitCoordinator
    /\ enabled = [p \in Platforms |-> TRUE]
    /\ InitSaved
    /\ InitLater
    /\ \E n \in 1..MaxPoolSize : InitStorage(n)

NextPool ==
    \/ (\E t \in Threads, op \in Methods : Call(t, op))
          /\ UNCHANGED offStorage
    \/ (\E t \in Threads : Acquire(t)) /\ UNCHANGED offStorage
    \/ (\E t \in Threads : AcquireTimeout(t))
          /\ UNCHANGED offStorage
    \/ (\E t \in Threads : Execute(t)) /\ UNCHANGED offStorage
    \/ (\E t \in Threads : ExitOk(t)) /\ UNCHANGED offStorage
    \/ (\E t \in Threads : ExitRaise(t)) /\ UNCHANGED offStorage
    \/ (\E t \in Threads, name \in BackupNames : RestoreBackup(t, name))
          /\ UNCHANGED offStorage
    \/ (\E t \in Threads : Close(t)) /\ UNCHANGED offStorage

SpecPool == InitPool /\ [][NextPool]_vars

\* every connection any pool object of the manager has created
AllConns == UNION {Range(NewQueue(g, pool_size)) : g \in 1..pool}

\* in how many places connection c is: queue slots plus holding callers
Places(c) ==
    Cardinality({<<g, i>> \in (DOMAIN queue) \X (1..pool_size) :
                    i \in DOMAIN queue[g] /\ queue[g][i] = c})
      + Cardinality({t \in Threads : th[t].conn = c})

\* C14: under every interleaving of acquisitions and releases, every open
\* connection is in exactly one place, one slot of one queue or the hands of
\* one caller, and a closed connection is in none: no connection is held by
\* two callers, and none is both idle and held.
C14_OneHolderPerConnection ==
    \A c \in AllConns : Places(c) = IF c \in open THEN 1 ELSE 0

\* a caller holds a connection while another caller waits for one on the
\* same, exhausted, pool
C14_Witness ==
    \E t, u \in Threads :
        /\ th[t].conn # NoConn
        /\ th[u].pc = "acquire"
        /\ th[u].pool = th[t].pool
        /\ queue[th[u].pool] = <<>>

\* C15: from construction until close() or restore_backup, idle connections
\* plus held connections are pool_size; and whenever a caller leaves the
\* get_connection scope, normally or by an exception of the body, its
\* connection is back on the queue it came from with nothing uncommitted.
C15_ScopedAcquisitionNeverLeaks ==
    /\ []((pool = 1 /\ ~shut) =>
            Len(queue[1]) + Cardinality(Held) = pool_size)
    /\ [][\A t \in Threads :
            (th[t].conn # NoConn /\ th'[t].conn = NoConn) =>
                /\ th[t].conn \in Range(queue'[th[t].pool])
                /\ th[t].conn \notin dirty']_vars

\* the body of a writing method raised after it had executed a statement,
\* and every connection is idle again
C15_Witness ==
    \E t \in Threads :
        /\ th[t].err = "constraint"
        /\ th[t].pc = "idle"
        /\ pool = 1
        /\ ~shut
        /\ Held = {}
        /\ Len(queue[1]) = pool_size
        /\ dirty = {}

\* C16: a storage method that met pool exhaustion or a violated constraint
\* has raised to its caller.
C16_PersistenceErrorsRaised ==
    \A t \in Threads :
        th[t].err \in {"exhausted", "constraint"} => th[t].out = "raised"

\* C19: once restore_backup has replaced the pool, every connection of an
\* earlier pool is closed (so none is held or usable), and the new pool has
\* its pool_size connections, idle or held.
C19_RestoreClosesEveryConnection ==
    pool > 1 =>
        /\ \A c \in AllConns : c[1] < pool => c \notin open
        /\ shut \/ Len(queue[pool])
                    + Cardinality({c \in Held : c[1] = pool}) = pool_size

\* ------------------------------------- products of the store (database.py)
\* One thread, Client, calls the product methods, each as one step; the
\* other threads hold connections through get_products calls of their own,
\* step by step as above.
MaxIds == 2          \* rows ever inserted into products (AUTOINCREMENT ids)

Client == 1
Others == Threads \ {Client}
OtherMethods == {"get_products"}

Null == 0 - 100      \* a numeric column holding NULL
PriceChoices == {0, 1, Null}
RatingChoices == {0 - 1, 5, 6}
PlatformChoices == {"tiktok", "ebay"}
CategoryChoices == {"tshirt", "shoes"}
NewPrices == {2}     \* prices handed to update_product_price

BaseRecord(u) ==
    [product_url |-> u, price |-> 1, rating |-> 5, platform |-> "tiktok",
     category |-> "tshirt"]

\* product_data: the base record with one field varied
RecordsOf(u) ==
    {[BaseRecord(u) EXCEPT !.price = x] : x \in PriceChoices}
    \cup {[BaseRecord(u) EXCEPT !.rating = x] : x \in RatingChoices}
    \cup {[BaseRecord(u) EXCEPT !.platform = x] : x \in PlatformChoices}
    \cup {[BaseRecord(u) EXCEPT !.category = x] : x \in CategoryChoices}

Records == UNION {RecordsOf(u) : u \in 1..MaxUrls}

\* a price trigger that lets a price of 0 through
PriceTriggerBelowZero(rec) == rec.price # Null /\ rec.price < 0

\* lines 296-317: the four BEFORE INSERT triggers
PriceTrigger(rec) == rec.price # Null /\ rec.price <= 0
RatingTrigger(rec) == rec.rating # Null /\ (rec.rating < 0 \/ rec.rating > 5)
PlatformTrigger(rec) == rec.platform \notin {"tiktok", "amazon"}
CategoryTrigger(rec) == rec.category \notin {"tshirt", "hoodie", "sweatshirt"}

Aborted(rec) ==
    PriceTrigger(rec) \/ RatingTrigger(rec) \/ PlatformTrigger(rec)
      \/ CategoryTrigger(rec)

\* SELECT id FROM products WHERE product_url = ?
IdsOfUrl(d, u) == {i \in DOMAIN d.rows : d.rows[i].product_url = u}

Without(f, k) == [x \in (DOMAIN f) \ {k} |-> f[x]]

\* the Client's call ends: what it was, and how it ended
Ended(op, arg, out, err) ==
    th' = [th EXCEPT ![Client] = [IdleThread EXCEPT !.op = op, !.arg = arg,
                                                    !.out = out, !.err = err]]

\* a Client call as one step: with the pool exhausted it ends in the error
\* of its except clause; else it takes the head connection, runs body and
\* puts the connection back
Atomic(op, arg, body) ==
    /\ th[Client].pc = "idle"
    /\ IF queue[pool] = <<>>
       THEN /\ Ended(op, arg, OnError(op), "exhausted")
            /\ UNCHANGED <<queue, db, backups, snap>>
       ELSE /\ body
            /\ queue' = [queue EXCEPT ![pool] = Rotate(@)]
    /\ UNCHANGED <<pool_size, pool, open, dirty, shut>>

\* insert_product, lines 361-393: a row of this product_url is updated with
\* every field given (no trigger runs on UPDATE); else the record is
\* inserted under the next id, unless a trigger aborts the INSERT
InsertProduct(rec) ==
    LET existing == IdsOfUrl(db, rec.product_url)
        arg == [rec |-> rec, new |-> existing = {}] IN
    Atomic("insert_product", arg,
        IF existing # {}
        THEN LET i == CHOOSE j \in existing : TRUE IN
             /\ db' = [db EXCEPT !.rows[i] =
                          [product_url |-> rec.product_url,
                           price |-> rec.price, rating |-> rec.rating,
                           platform |-> rec.platform,
                           category |-> rec.category, active |-> @.active]]
             /\ Ended("insert_product", arg, "returned", "none")
             /\ UNCHANGED <<backups, snap>>
        ELSE IF Aborted(rec)
        THEN /\ Ended("insert_product", arg, "raised", "constraint")
             /\ UNCHANGED <<db, backups, snap>>
        ELSE /\ db.seq < MaxIds
             /\ db' = [rows |-> Put(db.rows, db.seq + 1,
                          [product_url |-> rec.product_url,
                           price |-> rec.price, rating |-> rec.rating,
                           platform |-> rec.platform,
                           category |-> rec.category, active |-> TRUE]),
                       seq |-> db.seq + 1]
             /\ Ended("insert_product", arg, "returned", "none")
             /\ UNCHANGED <<backups, snap>>)

\* update_product_price, lines 472-498: UPDATE by id, then INSERT into
\* price_history, whose foreign key fails when no product has that id
UpdateProductPrice(i, price) ==
    Atomic("update_product_price", NoArg,
        IF i \in DOMAIN db.rows
        THEN /\ db' = [db EXCEPT !.rows[i].price = price]
             /\ Ended("update_product_price", NoArg, "returned", "none")
             /\ UNCHANGED <<backups, snap>>
        ELSE /\ Ended("update_product_price", NoArg, "raised", "constraint")
             /\ UNCHANGED <<db, backups, snap>>)

\* delete_product, lines 514-522: is_active = 0, or DELETE
DeleteProduct(i, soft) ==
    Atomic("delete_product", NoArg,
        /\ db' = IF i \notin DOMAIN db.rows THEN db
                 ELSE IF soft THEN [db EXCEPT !.rows[i].active = FALSE]
                 ELSE [db EXCEPT !.rows = Without(db.rows, i)]
        /\ Ended("delete_product", NoArg, "returned", "none")
        /\ UNCHANGED <<backups, snap>>)

\* create_backup, lines 756-767: the committed database is copied into the
\* backup file of that name, replacing the file if there is one
CreateBackup(name) ==
    Atomic("create_backup", name,
        /\ backups' = Put(backups, name, db)
        /\ snap' = Put(snap, name, Query(db))
        /\ Ended("create_backup", name, "returned", "none")
        /\ UNCHANGED db)

InitStore ==
    /\ InitCoordinator
    /\ enabled = [p \in Platforms |-> TRUE]
    /\ InitSaved
    /\ InitLater
    /\ InitStorage(1)

NextStore ==
    \/ (\E rec \in Records : InsertProduct(rec))
          /\ UNCHANGED offStorage
    \/ (\E i \in 1..MaxIds, price \in NewPrices : UpdateProductPrice(i, price))
          /\ UNCHANGED offStorage
    \/ (\E i \in 1..MaxIds, soft \in BOOLEAN : DeleteProduct(i, soft))
          /\ UNCHANGED offStorage
    \/ (\E name \in BackupNames : CreateBackup(name))
          /\ UNCHANGED offStorage
    \/ (\E name \in BackupNames : RestoreBackup(Client, name))
          /\ UNCHANGED offStorage
    \/ (\E t \in Others, op \in OtherMethods : Call(t, op))
          /\ UNCHANGED offStorage
    \/ (\E t \in Others : Acquire(t)) /\ UNCHANGED offStorage
    \/ (\E t \in Others : AcquireTimeout(t))
          /\ UNCHANGED offStorage
    \/ (\E t \in Others : ExitOk(t)) /\ UNCHANGED offStorage
    \/ (\E t \in Others : ExitRaise(t)) /\ UNCHANGED offStorage

SpecStore == InitStore /\ [][NextStore]_vars

\* the record breaks a rule of the store: its price is a number <= 0, its
\* rating a number outside [0, 5], its platform or its category not listed
BreaksRule(rec) ==
    \/ rec.price # Null /\ ~(rec.price > 0)
    \/ rec.rating # Null /\ ~(0 <= rec.rating /\ rec.rating <= 5)
    \/ ~(rec.platform = "tiktok" \/ rec.platform = "amazon")
    \/ ~(rec.category = "tshirt" \/ rec.category = "hoodie"
           \/ rec.category = "sweatshirt")

\* C17: an insert_product call for a product_url that has no row yet, with a
\* record that breaks a rule of the store, raises to its caller, and it
\* leaves no row of that product_url behind.
C17_InvalidNewProductRejected ==
    (/\ th[Client].op = "insert_product"
     /\ th[Client].arg.new
     /\ BreaksRule(th[Client].arg.rec)) =>
        /\ th[Client].out = "raised"
        /\ IdsOfUrl(db, th[Client].arg.rec.product_url) = {}

\* a new product with a price of 0 was rejected by a trigger while the pool
\* had a connection to give
C17_Witness ==
    /\ th[Client].op = "insert_product"
    /\ th[Client].arg.new
    /\ th[Client].arg.rec.price = 0
    /\ th[Client].err = "constraint"
    /\ th[Client].out = "raised"

\* C18: when restore_backup(path) has returned, a query of all products
\* returns what it returned just before create_backup wrote that backup,
\* whatever was inserted, updated and deleted in between.
C18_BackupRestoreRoundTrip ==
    (/\ th[Client].op = "restore_backup"
     /\ th[Client].out = "returned") =>
        Query(db) = snap[th[Client].arg]

\* --------------------------------------------- the DataIntegrator (main.py)
\* deduplicate_products, validate_data_quality and merge_platform_data are
\* pure functions of their arguments: the arguments are drawn at the start,
\* a step applies one of the functions to them and keeps what it returned.
MaxRecords == 2      \* records in the list handed to a DataIntegrator call
MaxOtherRecords == 1 \* records in the second list of merge_platform_data

NoId == ""           \* a record without 'product_id': get('product_id', '')
IntegratorIds == {"001", "002"}
IntegratorTitles == {"shirt", ""}
IntegratorPrices == {Null, 0, 2, 4}   \* Null: no 'price', or None

IntegratorRecords ==
    [product_id : IntegratorIds \cup {NoId}, title : IntegratorTitles,
     price : IntegratorPrices]

RecordLists(n) == UNION {[1..k -> IntegratorRecords] : k \in 0..n}

\* line 537: f"{platform.value}_{product.get('product_id', '')}"
DedupKey(product, platform) == platform \o "_" \o product.product_id

Reverse(s) == [i \in 1..Len(s) |-> s[Len(s) + 1 - i]]

\* lines 532-542, the loop from a given seen / deduplicated onwards
RECURSIVE DedupLoop(_, _, _, _)
DedupLoop(products, platform, seen, deduplicated) ==
    IF products = <<>> THEN deduplicated
    ELSE LET product == Head(products)
             product_id == DedupKey(product, platform)
         IN  IF product_id \notin seen
             THEN DedupLoop(Tail(products), platform, seen \cup {product_id},
                            Append(deduplicated, product))
             ELSE DedupLoop(Tail(products), platform, seen, deduplicated)

\* a deduplication that keeps the last record of every product_id
DeduplicateKeepingLast(products, platform) ==
    Reverse(DedupLoop(Reverse(products), platform, {}, <<>>))

\* DataIntegrator.deduplicate_products(products, platform)
DeduplicateProducts(products, platform) ==
    DedupLoop(products, platform, {}, <<>>)

\* line 550: not product.get('title')
TitleMissing(product) == product.title = ""

\* a price check that lets a price of 0 through
PriceInvalidBelowZero(product) == product.price # Null /\ product.price < 0

\* line 553: product.get('price') is not None and product.get('price') <= 0
PriceInvalid(product) == product.price # Null /\ product.price <= 0

\* line 556: not product.get('product_id')
IdMissing(product) == product.product_id = NoId

\* lines 548-557, one pass of the loop body: the issues of record i, each
\* the record's number with the kind of the message appended for it
IssuesOf(product, i) ==
    (IF TitleMissing(product) THEN <<<<i, "missing_title">>>> ELSE <<>>)
    \o (IF PriceInvalid(product) THEN <<<<i, "invalid_price">>>> ELSE <<>>)
    \o (IF IdMissing(product) THEN <<<<i, "missing_product_id">>>> ELSE <<>>)

RECURSIVE IssuesFrom(_, _)
IssuesFrom(products, i) ==
    IF i > Len(products) THEN <<>>
    ELSE IssuesOf(products[i], i) \o IssuesFrom(products, i + 1)

\* DataIntegrator.validate_data_quality(products)
ValidateDataQuality(products) ==
    LET issues == IssuesFrom(products, 1)
    IN  [is_valid |-> Len(issues) = 0, issues |-> issues]

\* [p.get('price', 0) for p in data if p.get('price')]: None and 0 are falsy
RECURSIVE TruthyPrices(_)
TruthyPrices(data) ==
    IF data = <<>> THEN <<>>
    ELSE (IF Head(data).price \notin {Null, 0} THEN <<Head(data).price>>
          ELSE <<>>) \o TruthyPrices(Tail(data))

RECURSIVE SumSeq(_)
SumSeq(s) == IF s = <<>> THEN 0 ELSE Head(s) + SumSeq(Tail(s))

MinOf(S) == CHOOSE x \in S : \A y \in S : x <= y
MaxOf(S) == CHOOSE x \in S : \A y \in S : x >= y

\* lines 571-573: min, max and avg of one platform; avg is the quotient
\* <<numerator, denominator>>. min() and max() of an empty list raise
\* ValueError.
PriceRange(data) ==
    IF data = <<>> THEN [raised |-> "none", min |-> 0, max |-> 0, avg |-> <<0, 1>>]
    ELSE IF TruthyPrices(data) = <<>>
    THEN [raised |-> "ValueError"]
    ELSE [raised |-> "none",
          min |-> MinOf(Range(TruthyPrices(data))),
          max |-> MaxOf(Range(TruthyPrices(data))),
          avg |-> <<SumSeq(TruthyPrices(data)), Len(data)>>]

\* DataIntegrator.merge_platform_data(amazon_data, tiktok_data). The records
\* carry no 'category' and no 'rating': every record counts under the default
\* category and sorts under the key 0, and the stable sort keeps the order.
MergePlatformData(amazon_data, tiktok_data) ==
    LET amazon == PriceRange(amazon_data)
        tiktok == PriceRange(tiktok_data)
        all_products == amazon_data \o tiktok_data
    IN  IF amazon.raised # "none" THEN [raised |-> amazon.raised]
        ELSE IF tiktok.raised # "none" THEN [raised |-> tiktok.raised]
        ELSE [raised |-> "none",
              total_products |-> Len(amazon_data) + Len(tiktok_data),
              amazon_products |-> Len(amazon_data),
              tiktok_products |-> Len(tiktok_data),
              amazon |-> amazon, tiktok |-> tiktok,
              categories |-> IF all_products = <<>> THEN <<>>
                             ELSE [c \in {"uncategorised"} |-> Len(all_products)],
              top_rated |-> SubSeq(all_products, 1, MinOf({5, Len(all_products)}))]

InitIntegratorCall ==
    integ \in [op : {"none"}, products : RecordLists(MaxRecords),
               other : RecordLists(MaxOtherRecords), platform : Platforms,
               out : {<<>>}]

Deduplicate ==
    integ' = [integ EXCEPT !.op = "deduplicate_products",
                !.out = DeduplicateProducts(integ.products, integ.platform)]

Validate ==
    integ' = [integ EXCEPT !.op = "validate_data_quality",
                !.out = ValidateDataQuality(integ.products)]

Merge ==
    integ' = [integ EXCEPT !.op = "merge_platform_data",
                !.out = MergePlatformData(integ.products, integ.other)]

offIntegrator ==
    <<coordinatorVars, saved, poolVars, storeVars, mon, statisticsTable, scr,
      bk, lastSave, reportsDir, txVars>>

InitIntegratorSpec ==
    /\ InitCoordinator
    /\ enabled = [p \in Platforms |-> TRUE]
    /\ InitSaved
    /\ InitStorage(1)
    /\ InitMonitor /\ InitStatistics /\ InitBackupLoop
    /\ InitLastSave /\ InitReports /\ InitTx
    /\ InitIntegratorCall

NextIntegrator ==
    \/ Deduplicate /\ UNCHANGED offIntegrator
    \/ Validate /\ UNCHANGED offIntegrator
    \/ Merge /\ UNCHANGED offIntegrator

SpecIntegrator == InitIntegratorSpec /\ [][NextIntegrator]_vars

\* the records of a list whose product_id did not occur earlier in the list
FirstOccurrences(s) ==
    LET keep == {i \in DOMAIN s :
                    \A j \in DOMAIN s : j < i => s[j].product_id # s[i].product_id}
        idx == SortedSeq(keep)
    IN  [k \in 1..Cardinality(keep) |-> s[idx[k]]]

\* C21: deduplicate_products returns the input records with every record
\* whose product_id already occurred earlier in the input removed, the first
\* occurrence kept and the input order preserved; applying it to its own
\* result returns that result.
C21_FirstOccurrencesIdempotent ==
    integ.op = "deduplicate_products" =>
        /\ integ.out = FirstOccurrences(integ.products)
        /\ DeduplicateProducts(integ.out, integ.platform) = integ.out

\* a list whose second record repeats the product_id of the first with
\* another title has been deduplicated
C21_Witness ==
    /\ integ.op = "deduplicate_products"
    /\ Len(integ.products) = 2
    /\ integ.products[1].product_id = integ.products[2].product_id
    /\ integ.products[1] # integ.products[2]
    /\ Len(integ.out) = 1

\* C22: every record returned by deduplicate_products carries as product_id
\* the platform value, "_" and the product_id the record came in with
\* (AMAZON with 001 and 002 gives amazon_001 and amazon_002).
C22_ReturnedIdsCarryPlatform ==
    integ.op = "deduplicate_products" =>
        LET first == FirstOccurrences(integ.products)
        IN  /\ Len(integ.out) = Len(first)
            /\ \A i \in DOMAIN integ.out :
                  integ.out[i].product_id =
                      integ.platform \o "_" \o first[i].product_id

\* the violations of a list: which rule which record breaks, a missing
\* price breaking the price rule or not
Violations(products, priceRequired) ==
    {<<i, "missing_title">> : i \in {k \in DOMAIN products : products[k].title = ""}}
    \cup {<<i, "missing_product_id">> :
             i \in {k \in DOMAIN products : products[k].product_id = NoId}}
    \cup {<<i, "invalid_price">> :
             i \in {k \in DOMAIN products :
                       \/ products[k].price # Null /\ products[k].price <= 0
                       \/ priceRequired /\ products[k].price = Null}}

\* issues holds exactly one entry for every violation in V, in record order
OnePerViolationInOrder(issues, V) ==
    /\ Len(issues) = Cardinality(V)
    /\ Range(issues) = V
    /\ \A a, b \in DOMAIN issues : a < b => issues[a][1] <= issues[b][1]

\* C23 as stated: validate_data_quality returns is_valid = true exactly when
\* every record has a non-empty title, a product_id and a price > 0, and
\* otherwise is_valid = false with one issue per violation, in record order.
C23_ValidIffTitleIdPositivePrice ==
    integ.op = "validate_data_quality" =>
        /\ integ.out.is_valid = (Violations(integ.products, TRUE) = {})
        /\ OnePerViolationInOrder(integ.out.issues,
                                  Violations(integ.products, TRUE))

\* C23: validate_data_quality returns is_valid = true exactly when every
\* record has a non-empty title, a product_id and no price that is <= 0 (a
\* record without a price passes), and otherwise is_valid = false with one
\* issue per violation, in record order.
C23_ValidIffTitleIdNoBadPrice ==
    integ.op = "validate_data_quality" =>
        /\ integ.out.is_valid = (Violations(integ.products, FALSE) = {})
        /\ OnePerViolationInOrder(integ.out.issues,
                                  Violations(integ.products, FALSE))

\* a list with a sound record and a record that breaks all three rules has
\* been validated
C23_Witness ==
    /\ integ.op = "validate_data_quality"
    /\ Len(integ.products) = 2
    /\ integ.products[1] = [product_id |-> "001", title |-> "shirt", price |-> 2]
    /\ integ.products[2] = [product_id |-> NoId, title |-> "", price |-> 0]
    /\ ~integ.out.is_valid
    /\ Len(integ.out.issues) = 3

\* every record of the list has a price
AllPriced(data) == \A i \in DOMAIN data : data[i].price # Null

PricesOf(data) == {data[i].price : i \in DOMAIN data}

RECURSIVE SumOfPrices(_)
SumOfPrices(data) ==
    IF data = <<>> THEN 0 ELSE Head(data).price + SumOfPrices(Tail(data))

\* r holds the minimum, the maximum and the arithmetic mean of the prices of
\* the records of data, and three zeros for the empty list
IsPriceSummary(r, data) ==
    IF data = <<>> THEN r.min = 0 /\ r.max = 0 /\ r.avg[1] = 0
    ELSE /\ r.min = MinOf(PricesOf(data))
         /\ r.max = MaxOf(PricesOf(data))
         /\ r.avg[1] * Len(data) = SumOfPrices(data) * r.avg[2]

\* C24: merge_platform_data raises for no input lists; it returns, per
\* platform, the minimum, the maximum and the arithmetic mean of the prices
\* of that platform's records (stated for lists in which every record has a
\* price) and 0 for all three when the list is empty; for two empty lists
\* the counts are zero and top_rated is empty.
C24_PriceSummaryNeverRaises ==
    integ.op = "merge_platform_data" =>
        /\ integ.out.raised = "none"
        /\ AllPriced(integ.products) => IsPriceSummary(integ.out.amazon, integ.products)
        /\ AllPriced(integ.other) => IsPriceSummary(integ.out.tiktok, integ.other)
        /\ integ.products = <<>> /\ integ.other = <<>> =>
              /\ integ.out.total_products = 0
              /\ integ.out.amazon_products = 0
              /\ integ.out.tiktok_products = 0
              /\ integ.out.top_rated = <<>>

\* ----------------------------------------- the PerformanceMonitor (main.py)
\* record_execution called from several threads at once, as the pool threads
\* of execute_multiple_tasks do (lines 708-711). list.append is one call
\* into the interpreter, which runs it to its end before another thread
\* touches the list; the record is built before it and the alert check runs
\* after it, each on the thread's own record.
MaxSamples == 3      \* record_execution calls in one run of the model

MonitorIdle == [pc |-> "idle", record |-> <<>>]

MonitorThread(t) == IF t \in DOMAIN mon.th THEN mon.th[t] ELSE MonitorIdle

MonitorStarted == Len(performance_data) + Cardinality({t \in DOMAIN mon.th : mon.th[t].pc = "built"})

\* lines 605-614: the call has built its record
MonitorBuild(t, p, ok, n) ==
    /\ MonitorThread(t).pc = "idle"
    /\ MonitorStarted < MaxSamples
    /\ mon' = [mon EXCEPT !.th = Put(mon.th, t,
                 [pc |-> "built",
                  record |-> [platform |-> p, success |-> ok, items_count |-> n]])]
    /\ UNCHANGED performance_data

\* line 615: self.performance_data.append(record)
MonitorAppend(t) ==
    /\ MonitorThread(t).pc = "built"
    /\ performance_data' =
          RecordExecution(performance_data, mon.th[t].record.platform,
                          mon.th[t].record.success, mon.th[t].record.items_count)
    /\ mon' = [mon EXCEPT !.th[t].pc = "appended"]

\* lines 617-618 and 620-627: _check_performance_alerts logs; the call returns
MonitorCheckAlerts(t) ==
    /\ MonitorThread(t).pc = "appended"
    /\ mon' = [mon EXCEPT !.th[t] = MonitorIdle, !.done = mon.done + 1]
    /\ UNCHANGED performance_data

offMonitor ==
    <<now, enabled, tasks, ex, calls, tasksTable, resultsTable, productsTable,
      mainpc, direct, batch, maxw, fut, results, resultsSrc, saved, poolVars,
      storeVars, integ, statisticsTable, scr, bk, lastSave, reportsDir,
      txVars>>

NextMonitor ==
    \/ (\E t \in Threads, p \in Platforms, ok \in BOOLEAN, n \in 0..MaxItems :
           MonitorBuild(t, p, ok, n)) /\ UNCHANGED offMonitor
    \/ (\E t \in Threads : MonitorAppend(t)) /\ UNCHANGED offMonitor
    \/ (\E t \in Threads : MonitorCheckAlerts(t)) /\ UNCHANGED offMonitor

SpecMonitor == Init /\ [][NextMonitor]_vars

MaxScrapes == 2      \* scrape_platform / scrape_all_platforms calls in a run
SecondsPerDay == 2   \* seconds of one calendar day on the model's clock
DefaultBatchWorkers == 5

CategoryLists == UNION {[1..n -> Categories] : n \in 0..MaxTasks}

\* line 873: datetime.now().date().isoformat()
Today(t) == t \div SecondsPerDay

\* a statistics table with one row per (date, platform)
UpdateStatisticsReplacing(table, row) ==
    IF \E k \in DOMAIN table :
          table[k].date = row.date /\ table[k].platform = row.platform
    THEN [k \in DOMAIN table |->
             IF table[k].date = row.date /\ table[k].platform = row.platform
             THEN row ELSE table[k]]
    ELSE Append(table, row)

\* DatabaseManager.update_statistics, lines 363-378: INSERT INTO statistics
\* (append, autoincrement stat_id)
UpdateStatistics(table, row) == Append(table, row)

\* every platform, whatever its enabled flag
AllPlatformsInOrder == <<"amazon", "tiktok">>

\* lines 795-808: the platforms scrape_all_platforms creates tasks for:
\* amazon, then tiktok, each only when its adapter is enabled
PlatformsToScrape ==
    (IF enabled["amazon"] THEN <<"amazon">> ELSE <<>>)
    \o (IF enabled["tiktok"] THEN <<"tiktok">> ELSE <<>>)

\* the (platform, category) of the tasks of a call, in creation order
RECURSIVE TasksToCreate(_, _)
TasksToCreate(platforms, categories) ==
    IF platforms = <<>> THEN <<>>
    ELSE [i \in DOMAIN categories |-> <<Head(platforms), categories[i]>>]
         \o TasksToCreate(Tail(platforms), categories)

RECURSIVE SumSeqOf(_, _)
SumSeqOf(d, n) == IF n = 0 THEN 0 ELSE d[n] + SumSeqOf(d, n - 1)

\* the create_task calls of one entry point: the i-th reads the clock
\* d[1] + ... + d[i] seconds after the last reading
CreatedTasks(todo, d) ==
    [i \in DOMAIN todo |-> NewTask(todo[i][1], todo[i][2], now + SumSeqOf(d, i))]

RECURSIVE SaveTasks(_, _)
SaveTasks(table, new) ==
    IF new = <<>> THEN table
    ELSE SaveTasks(SaveTask(table, Head(new)), Tail(new))

\* lines 867-870 and 875
SuccessfulOf(rs) == SelectSeq(rs, LAMBDA r : r.success)
FailedOf(rs) == SelectSeq(rs, LAMBDA r : ~r.success)

RECURSIVE TotalItems(_)
TotalItems(rs) ==
    IF rs = <<>> THEN 0 ELSE Head(rs).items_found + TotalItems(Tail(rs))

StatisticsRow(date, p, rs) ==
    [date |-> date, platform |-> p, total_tasks |-> Len(rs),
     successful_tasks |-> Len(SuccessfulOf(rs)),
     failed_tasks |-> Len(FailedOf(rs)),
     total_items |-> TotalItems(SuccessfulOf(rs))]

\* lines 819-824: the Results filed under their platform, in list order
GroupByPlatform(rs) ==
    [p \in {rs[k].platform : k \in DOMAIN rs} |->
        SelectSeq(rs, LAMBDA r : r.platform = p)]

\* both entry points, lines 772-778 and 795-815: create the tasks, then
\* execute_multiple_tasks(tasks) with its default max_workers
ScrapeBegin(op, p, categories, todo, d) ==
    /\ IsIdle
    /\ scr.pc # "executing"
    /\ scr.n < MaxScrapes
    /\ Len(tasks) + Len(todo) <= MaxTasks
    /\ calls + Len(todo) <= MaxRuns
    /\ LET new == CreatedTasks(todo, d) IN
        /\ now' = now + SumSeqOf(d, Len(todo))
        /\ tasks' = tasks \o new
        /\ ex' = ex \o [i \in DOMAIN todo |-> InitEx]
        /\ tasksTable' = SaveTasks(tasksTable, new)
    /\ mainpc' = "batch"
    /\ batch' = [i \in DOMAIN todo |-> Len(tasks) + i]
    /\ maxw' = DefaultBatchWorkers
    /\ fut' = [i \in DOMAIN todo |->
                 [state |-> "queued", result |-> NoResult, collected |-> FALSE]]
    /\ results' = <<>>
    /\ resultsSrc' = <<>>
    /\ scr' = [scr EXCEPT !.op = op, !.pc = "executing", !.platform = p,
                          !.categories = categories, !.first = Len(tasks),
                          !.before = statisticsTable, !.ret = <<>>,
                          !.n = scr.n + 1]
    /\ UNCHANGED <<enabled, calls, resultsTable, productsTable,
                   performance_data, direct, statisticsTable>>

\* MainCoordinator.scrape_platform, lines 769-778
ScrapePlatformBegin(p, categories, d) ==
    ScrapeBegin("scrape_platform", p, categories,
                TasksToCreate(<<p>>, categories), d)

\* MainCoordinator.scrape_all_platforms, lines 788-815
ScrapeAllBegin(categories, d) ==
    ScrapeBegin("scrape_all_platforms", "", categories,
                TasksToCreate(PlatformsToScrape, categories), d)

scrapeRest ==
    <<enabled, tasks, ex, calls, tasksTable, resultsTable, productsTable,
      performance_data, mainpc, direct, batch, maxw, fut, results, resultsSrc>>

\* lines 781-783 with _generate_platform_report, lines 864-884: the clock is
\* read for today's date, the row is inserted, the Results are returned.
\* (When update_statistics raises, the call raises and no row is stored.)
ScrapePlatformReport ==
    /\ scr.op = "scrape_platform"
    /\ scr.pc = "executing"
    /\ mainpc = "batch_returned"
    /\ now' \in {now, now + 1}
    /\ statisticsTable' =
          UpdateStatistics(statisticsTable,
                           StatisticsRow(Today(now'), scr.platform, results))
    /\ scr' = [scr EXCEPT !.pc = "returned", !.ret = results,
                 !.reported = Put(scr.reported, <<scr.platform, Today(now')>>,
                    IF <<scr.platform, Today(now')>> \in DOMAIN scr.reported
                    THEN scr.reported[<<scr.platform, Today(now')>>] + 1
                    ELSE 1)]
    /\ UNCHANGED scrapeRest

\* the records of a Result's data, each with its product_id as the adapter
\* writes it, a string
DataRecords(data) == [i \in DOMAIN data |-> [product_id |-> ToString(data[i])]]

\* _integrate_data, lines 838-845: all_products of one platform: the data of
\* every successful Result that has data, each deduplicated on its own,
\* one after the other
RECURSIVE AllProducts(_, _)
AllProducts(platform_results, p) ==
    IF platform_results = <<>> THEN <<>>
    ELSE LET result == Head(platform_results) IN
         (IF result.success /\ result.data # <<>>
          THEN DeduplicateProducts(DataRecords(result.data), p)
          ELSE <<>>)
         \o AllProducts(Tail(platform_results), p)

\* lines 848-849: platform_data.get(platform, [])
PlatformData(grouped, p) ==
    IF p \in DOMAIN grouped THEN AllProducts(grouped[p], p) ELSE <<>>

\* lines 851-862: a platform has records, so merge_platform_data is called
\* and _save_integration_report writes its file
IntegrationWrites(grouped) ==
    PlatformData(grouped, "amazon") # <<>>
      \/ PlatformData(grouped, "tiktok") # <<>>

\* lines 817-832: the Results are grouped by platform, integrated, reported
\* and returned. The adapters' records all carry a price > 0 (lines 421,
\* 485), so merge_platform_data returns. _save_integration_report opens its
\* file under reports/ (lines 932-934), which raises FileNotFoundError when
\* the directory is not there; _generate_comprehensive_report, which runs
\* after it, creates the directory (line 922) and writes its file. Neither
\* writes a statistics row.
ScrapeAllReturn ==
    /\ scr.op = "scrape_all_platforms"
    /\ scr.pc = "executing"
    /\ mainpc = "batch_returned"
    /\ IF IntegrationWrites(GroupByPlatform(results)) /\ ~reportsDir
       THEN /\ scr' = [scr EXCEPT !.pc = "raised"]
            /\ UNCHANGED reportsDir
       ELSE /\ scr' = [scr EXCEPT !.pc = "returned",
                                  !.ret = GroupByPlatform(results)]
            /\ reportsDir' = TRUE
    /\ UNCHANGED <<now, scrapeRest, statisticsTable>>

offScrape ==
    <<saved, poolVars, storeVars, integ, mon, bk, lastSave, reportsDir,
      txVars>>

NextScrape ==
    \/ (\E p \in Platforms, cs \in CategoryLists :
           \E d \in [1..Len(cs) -> {0, 1}] : ScrapePlatformBegin(p, cs, d))
          /\ UNCHANGED offScrape
    \/ (\E cs \in CategoryLists :
           \E d \in [1..(Len(PlatformsToScrape) * Len(cs)) -> {0, 1}] :
               ScrapeAllBegin(cs, d))
          /\ UNCHANGED offScrape
    \/ (\E t \in 1..MaxTasks : ExecStart(t)) /\ UNCHANGED offCoordinator
    \/ (\E t \in 1..MaxTasks : ExecDispatch(t)) /\ UNCHANGED offCoordinator
    \/ (\E t \in 1..MaxTasks : ScrapeReturnsResult(t)) /\ UNCHANGED offCoordinator
    \/ (\E t \in 1..MaxTasks : ScrapeRaises(t)) /\ UNCHANGED offCoordinator
    \/ (\E t \in 1..MaxTasks : ExecSaveTask(t)) /\ UNCHANGED offCoordinator
    \/ (\E t \in 1..MaxTasks : ExecSaveResult(t)) /\ UNCHANGED offCoordinator
    \/ (\E t \in 1..MaxTasks : ExecReturn(t)) /\ UNCHANGED offCoordinator
    \/ (WorkerTake) /\ UNCHANGED offCoordinator
    \/ (\E i \in 1..MaxTasks : Collect(i)) /\ UNCHANGED offCoordinator
    \/ (BatchReturn) /\ UNCHANGED offCoordinator
    \/ (ScrapePlatformReport) /\ UNCHANGED offScrape
    \/ (ScrapeAllReturn)
          /\ UNCHANGED <<saved, poolVars, storeVars, integ, mon, bk, lastSave,
                         txVars>>

SpecScrape == Init /\ [][NextScrape]_vars

\* the statistics rows of a platform and a date
RowsOf(table, p, date) ==
    {k \in DOMAIN table : table[k].platform = p /\ table[k].date = date}

\* C26: a scrape_platform call returns exactly one Result per category and
\* appends exactly one new statistics row, for today's date and the
\* platform, with total_tasks = number of categories, successful_tasks +
\* failed_tasks = total_tasks and total_items = the sum of items_found over
\* the successful Results; it leaves every existing row unchanged, so k
\* calls on one day for one platform leave k rows for that day and platform.
C26_OneStatisticsRowPerCall ==
    /\ [](scr.op = "scrape_platform" /\ scr.pc = "returned" =>
            /\ Len(scr.ret) = Len(scr.categories)
            /\ \A c \in Categories :
                  Cardinality({k \in DOMAIN scr.ret : scr.ret[k].task_id[2] = c})
                    = Cardinality({i \in DOMAIN scr.categories :
                                      scr.categories[i] = c})
            /\ Len(statisticsTable) = Len(scr.before) + 1
            /\ SubSeq(statisticsTable, 1, Len(scr.before)) = scr.before
            /\ LET row == statisticsTable[Len(statisticsTable)] IN
                /\ row.date = Today(now)
                /\ row.platform = scr.platform
                /\ row.total_tasks = Len(scr.categories)
                /\ row.successful_tasks + row.failed_tasks = row.total_tasks
                /\ row.total_items =
                      TotalItems(SelectSeq(scr.ret, LAMBDA r : r.success)))
    /\ [](\A p \in Platforms, day \in 0..Today(now) :
            Cardinality(RowsOf(statisticsTable, p, day)) =
                IF <<p, day>> \in DOMAIN scr.reported
                THEN scr.reported[<<p, day>>] ELSE 0)
    /\ [][\A k \in DOMAIN statisticsTable :
            /\ k \in DOMAIN statisticsTable'
            /\ statisticsTable'[k] = statisticsTable[k]]_vars

\* the second scrape_platform call of a day for a platform has returned,
\* with a successful Result that found an item, and a failed one before it
C26_Witness ==
    /\ scr.op = "scrape_platform"
    /\ scr.pc = "returned"
    /\ Len(scr.ret) = 1
    /\ scr.ret[1].success
    /\ scr.ret[1].items_found = 1
    /\ Len(statisticsTable) = 2
    /\ statisticsTable[1].date = statisticsTable[2].date
    /\ statisticsTable[1].platform = statisticsTable[2].platform
    /\ statisticsTable[1].failed_tasks = 1
    /\ statisticsTable[2].total_items = 1

\* the tasks created since the call began
NewTasksOf(p, c) ==
    {t \in DOMAIN tasks :
        t > scr.first /\ tasks[t].platform = p /\ tasks[t].category = c}

\* the Results filed under a platform in the returned mapping
FiledUnder(p) == IF p \in DOMAIN scr.ret THEN scr.ret[p] ELSE <<>>

\* C27: scrape_all_platforms creates exactly one task per (enabled platform,
\* category) pair and none for a disabled platform, submits them in a single
\* execute_multiple_tasks call, and returns a mapping in which every Result
\* appears exactly once, under its own platform: an enabled platform has
\* exactly len(categories) Results, a disabled platform has no entry.
C27_OneTaskPerEnabledPlatformAndCategory ==
    /\ scr.op = "scrape_all_platforms" /\ scr.pc \in {"executing", "returned"} =>
        /\ \A p \in Platforms, c \in Categories :
              Cardinality(NewTasksOf(p, c)) =
                  IF enabled[p]
                  THEN Cardinality({i \in DOMAIN scr.categories :
                                       scr.categories[i] = c})
                  ELSE 0
        /\ Range(batch) = {t \in DOMAIN tasks : t > scr.first}
        /\ Len(batch) = Len(tasks) - scr.first
    /\ scr.op = "scrape_all_platforms" /\ scr.pc = "returned" =>
        /\ \A p \in DOMAIN scr.ret :
              \A k \in DOMAIN scr.ret[p] : scr.ret[p][k].platform = p
        /\ \A i \in DOMAIN batch :
              LET p == tasks[batch[i]].platform IN
              Cardinality({k \in DOMAIN FiledUnder(p) :
                              FiledUnder(p)[k].task_id = tasks[batch[i]].task_id})
                = Cardinality({j \in DOMAIN batch :
                                  tasks[batch[j]].task_id = tasks[batch[i]].task_id})
        /\ \A p \in Platforms :
              IF enabled[p]
              THEN Len(FiledUnder(p)) = Len(scr.categories)
              ELSE p \notin DOMAIN scr.ret

\* scrape_all_platforms has returned for one category with amazon enabled
\* and tiktok disabled; or with both enabled, one Result under each
C27_Witness ==
    /\ scr.op = "scrape_all_platforms"
    /\ scr.pc = "returned"
    /\ Len(scr.categories) = 1
    /\ enabled["amazon"]
    /\ Len(scr.ret["amazon"]) = 1
    /\ \/ ~enabled["tiktok"] /\ DOMAIN scr.ret = {"amazon"}
       \/ enabled["tiktok"] /\ Len(scr.ret["tiktok"]) = 1

\* ------------------------------------------ the auto-backup loop (database.py)
\* The daemon thread of _start_auto_backup next to the threads that read
\* through the connection of a pool of one: a cycle sleeps for the interval, calls create_backup and
\* cleanup_old_backups, and its except clause logs what either raised.
\* create_backup raises when the pool stays exhausted for the timeout or
\* when sqlite fails while copying; cleanup_old_backups catches its own
\* exceptions. The counters stop counting at MaxCycles.
MaxCycles == 3       \* cycles and logged errors the loop's counters tell apart

UpTo(n) == IF n < MaxCycles THEN n + 1 ELSE n

\* line 130: auto_backup is on, the thread is started and sleeps
InitBackupThread ==
    bk = [pc |-> "sleeping", attempts |-> 0, errors |-> 0, cause |-> "none"]

\* line 331: time.sleep returns after the interval
BackupWake ==
    /\ bk.pc = "sleeping"
    /\ bk' = [bk EXCEPT !.pc = "create_backup", !.attempts = UpTo(@),
                        !.cause = "none"]
    /\ UNCHANGED <<poolVars, storeVars>>

\* line 332, create_backup (lines 754-771) as one step: the pool's head
\* connection copies the database into the backup file; or the pool is
\* exhausted, or the copy fails, and the exception is raised again
BackupCreate(name, fails) ==
    /\ bk.pc = "create_backup"
    /\ IF queue[pool] = <<>>
       THEN /\ bk' = [bk EXCEPT !.pc = "except", !.cause = "exhausted"]
            /\ UNCHANGED <<queue, backups, snap>>
       ELSE IF fails
       THEN /\ bk' = [bk EXCEPT !.pc = "except", !.cause = "sqlite"]
            /\ UNCHANGED <<queue, backups, snap>>
       ELSE /\ backups' = Put(backups, name, db)
            /\ snap' = Put(snap, name, Query(db))
            /\ queue' = [queue EXCEPT ![pool] = Rotate(@)]
            /\ bk' = [bk EXCEPT !.pc = "cleanup"]
    /\ UNCHANGED <<pool_size, pool, open, dirty, th, shut, db>>

\* line 333, cleanup_old_backups (lines 805-816): the backup files older
\* than the retention are unlinked; an exception on the way is caught
\* inside and leaves the remaining files
BackupCleanup(expired) ==
    /\ bk.pc = "cleanup"
    /\ expired \subseteq DOMAIN backups
    /\ backups' = [n \in (DOMAIN backups) \ expired |-> backups[n]]
    /\ snap' = [n \in (DOMAIN snap) \ expired |-> snap[n]]
    /\ bk' = [bk EXCEPT !.pc = "sleeping"]
    /\ UNCHANGED <<poolVars, db>>

\* an except clause that logs and raises again: the thread ends
BackupExceptReraising ==
    /\ bk.pc = "except"
    /\ bk' = [bk EXCEPT !.pc = "exited", !.errors = UpTo(@)]
    /\ UNCHANGED <<poolVars, storeVars>>

\* lines 334-335: except Exception: logger.error(...); back to while True
BackupExcept ==
    /\ bk.pc = "except"
    /\ bk' = [bk EXCEPT !.pc = "sleeping", !.errors = UpTo(@)]
    /\ UNCHANGED <<poolVars, storeVars>>

offBackup ==
    <<coordinatorVars, saved, integ, mon, statisticsTable, scr, lastSave,
      reportsDir, txVars>>

InitBackup ==
    /\ InitCoordinator
    /\ enabled = [p \in Platforms |-> TRUE]
    /\ InitSaved
    /\ InitIntegrator /\ InitMonitor /\ InitStatistics
    /\ InitLastSave /\ InitReports /\ InitTx
    /\ InitBackupThread
    /\ InitStorage(1)

BackupThread ==
    \/ BackupWake /\ UNCHANGED offBackup
    \/ (\E name \in BackupNames, fails \in BOOLEAN : BackupCreate(name, fails))
          /\ UNCHANGED offBackup
    \/ (\E expired \in SUBSET BackupNames : BackupCleanup(expired))
          /\ UNCHANGED offBackup
    \/ BackupExcept /\ UNCHANGED offBackup

NextBackup ==
    \/ BackupThread
    \/ (\E t \in Threads, op \in OtherMethods : Call(t, op))
          /\ UNCHANGED offStorage
    \/ (\E t \in Threads : Acquire(t)) /\ UNCHANGED offStorage
    \/ (\E t \in Threads : AcquireTimeout(t)) /\ UNCHANGED offStorage
    \/ (\E t \in Threads : ExitOk(t)) /\ UNCHANGED offStorage
    \/ (\E t \in Threads : ExitRaise(t)) /\ UNCHANGED offStorage

SpecBackup == InitBackup /\ [][NextBackup]_vars

\* the thread is scheduled: a sleep that can end ends, a call returns or raises
SpecBackupFair == SpecBackup /\ WF_vars(BackupThread)

\* C28: an exception of create_backup or cleanup_old_backups in one cycle is
\* caught and logged and never leaves the loop: the thread never ends, and
\* after every caught exception, as at every other time, a later cycle
\* attempts a backup again.
C28_LoopSurvivesBackupErrors ==
    /\ [](bk.pc # "exited")
    /\ (bk.pc = "except") ~> (bk.pc = "create_backup")
    /\ []<>(bk.pc = "create_backup")

\* a backup is attempted again after the exceptions of two earlier cycles
\* were caught and logged
C28_Witness ==
    /\ bk.pc = "create_backup"
    /\ bk.errors >= 2
    /\ bk.attempts >= 3

\* ------------------------------------------- retry fields and error_message
\* C29: the retry counters are reporting-only: in every state reachable
\* through create_task, execute_single_task and execute_multiple_tasks (of
\* which scrape_platform and scrape_all_platforms are made) every task has
\* retry_count = 0 and max_retries = 3 and a status among PENDING, RUNNING,
\* SUCCESS and FAILED, and no task is resubmitted automatically: a call
\* invokes the adapter at most once, and a call of a task begins only as the
\* caller's own call or as a submitted future that a pool thread takes.
C29_RetryFieldsNeverUsed ==
    /\ [](\A t \in DOMAIN tasks :
            /\ tasks[t].retry_count = 0
            /\ tasks[t].max_retries = 3
            /\ tasks[t].status \in {"pending", "running", "success", "failed"}
            /\ ex[t].scrapes <= ex[t].runs)
    /\ [](\A id \in DOMAIN tasksTable :
            /\ tasksTable[id].retry_count = 0
            /\ tasksTable[id].max_retries = 3
            /\ tasksTable[id].status \in {"pending", "running", "success", "failed"})
    /\ [][\A t \in DOMAIN tasks :
            ex'[t].runs > ex[t].runs =>
                \/ mainpc' = "direct" /\ direct' = t /\ mainpc # "direct"
                \/ \E i \in DOMAIN fut :
                      /\ batch[i] = t
                      /\ fut[i].state = "queued"
                      /\ fut'[i].state = "running"]_vars

\* a task has failed in its only call, the call has returned and the
\* coordinator is idle again
C29_Witness ==
    \E t \in DOMAIN tasks :
        /\ tasks[t].status = "failed"
        /\ tasksTable[tasks[t].task_id].status = "failed"
        /\ ex[t].outcome = "returned"
        /\ ex[t].runs = 1
        /\ ex[t].scrapes = 1
        /\ mainpc = "idle"

\* C30: in every reachable state a task's error_message is empty unless its
\* status is FAILED; a task whose latest execution ended in SUCCESS has an
\* empty error_message, also when an earlier execution of it failed.
C30_ErrorMessageOnlyWhenFailed ==
    \A t \in DOMAIN tasks :
        tasks[t].error_message # "" => tasks[t].status = "failed"

\* ------------------------- transactions of the product methods (database.py)
\* insert_product, update_product_price, delete_product and
\* insert_hot_comment statement by statement, called by concurrent threads
\* through the connections of one pool. The statements a connection has
\* executed since its last commit or rollback are its open transaction:
\* only that connection sees them, and sqlite admits one writing transaction
\* at a time. Foreign keys are enforced (line 75). The Client calls the four
\* methods, the other threads call insert_product.
MaxHistory == 1      \* rows ever inserted into price_history
MaxComments == 1     \* rows ever inserted into hot_comments

TxRecords ==
    {[BaseRecord(u) EXCEPT !.rating = x] : u \in 1..MaxUrls, x \in {5, 6}}
TxPrices == {Null, 0}        \* prices handed to update_product_price

offTx ==
    <<coordinatorVars, saved, integ, mon, statisticsTable, scr, bk, lastSave,
      reportsDir>>

Tables(d, h, c) == [db |-> d, price_history |-> h, hot_comments |-> c]

\* what a statement on connection c reads
View(c) ==
    IF c \in DOMAIN tx THEN tx[c] ELSE Tables(db, price_history, hot_comments)

\* no other connection has a writing transaction open
CanWrite(c) == DOMAIN tx \subseteq {c}

\* a storage method is entered with its arguments
TxCall(t, op, arg) ==
    /\ th[t].pc = "idle"
    /\ th' = [th EXCEPT ![t] = [IdleThread EXCEPT !.pc = "acquire", !.op = op,
                                                  !.arg = arg, !.pool = pool]]
    /\ UNCHANGED <<pool_size, pool, queue, open, dirty, shut, storeVars,
                   txVars>>

\* a statement of thread t has executed inside the transaction of its
\* connection, leaving the tables as view for that connection
Executed(t, to, arg, view) ==
    /\ CanWrite(th[t].conn)
    /\ tx' = Put(tx, th[t].conn, view)
    /\ dirty' = dirty \cup {th[t].conn}
    /\ th' = [th EXCEPT ![t] = [@ EXCEPT !.pc = to, !.arg = arg]]
    /\ UNCHANGED <<pool_size, pool, queue, open, shut, storeVars,
                   price_history, hot_comments>>

\* a statement of thread t has raised, after its transaction had begun
Failed(t, err) ==
    Executed(t, "failed", [th[t].arg EXCEPT !.err = err], View(th[t].conn))

\* lines 363-365: SELECT id FROM products WHERE product_url = ?, fetchone
SelectExisting(t) ==
    /\ th[t].pc = "body"
    /\ th[t].op = "insert_product"
    /\ LET ids == IdsOfUrl(View(th[t].conn).db, th[t].arg.rec.product_url) IN
       th' = [th EXCEPT ![t] =
                [@ EXCEPT !.pc = "selected",
                          !.arg.existing =
                              IF ids = {} THEN 0
                              ELSE CHOOSE i \in ids : \A j \in ids : i <= j]]
    /\ UNCHANGED <<pool_size, pool, queue, open, dirty, shut, storeVars,
                   txVars>>

\* lines 374-377: UPDATE products SET ... WHERE product_url = ?, with every
\* field of product_data; no trigger runs on UPDATE
UrlUpdated(d, rec) ==
    [d EXCEPT !.rows =
        [i \in DOMAIN d.rows |->
            IF d.rows[i].product_url = rec.product_url
            THEN [product_url |-> rec.product_url, price |-> rec.price,
                  rating |-> rec.rating, platform |-> rec.platform,
                  category |-> rec.category, active |-> d.rows[i].active]
            ELSE d.rows[i]]]

\* lines 387-390: INSERT INTO products, the row under the next id
RowInserted(d, rec) ==
    [rows |-> Put(d.rows, d.seq + 1,
                  [product_url |-> rec.product_url, price |-> rec.price,
                   rating |-> rec.rating, platform |-> rec.platform,
                   category |-> rec.category, active |-> TRUE]),
     seq |-> d.seq + 1]

\* lines 367-390: the UPDATE when the SELECT found a row, else the INSERT,
\* which a trigger of _add_constraints may abort
WriteProduct(t) ==
    LET v == View(th[t].conn)
        rec == th[t].arg.rec IN
    /\ th[t].pc = "selected"
    /\ IF th[t].arg.existing # 0
       THEN Executed(t, "executed", th[t].arg,
                     [v EXCEPT !.db = UrlUpdated(v.db, rec)])
       ELSE IF Aborted(rec) THEN Failed(t, "constraint")
       ELSE /\ v.db.seq < MaxIds
            /\ Executed(t, "executed", th[t].arg,
                        [v EXCEPT !.db = RowInserted(v.db, rec)])

\* line 486: UPDATE products SET price = ? ... WHERE id = ?
UpdatePrice(t) ==
    LET v == View(th[t].conn)
        i == th[t].arg.id IN
    /\ th[t].pc = "body"
    /\ th[t].op = "update_product_price"
    /\ Executed(t, "updated", th[t].arg,
                IF i \in DOMAIN v.db.rows
                THEN [v EXCEPT !.db.rows[i].price = th[t].arg.price]
                ELSE v)

\* lines 493-496: INSERT INTO price_history; the foreign key fails when no
\* product has that id, NOT NULL fails for a price of None
RecordPrice(t) ==
    LET v == View(th[t].conn)
        i == th[t].arg.id
        h == v.price_history IN
    /\ th[t].pc = "updated"
    /\ IF i \notin DOMAIN v.db.rows \/ th[t].arg.price = Null
       THEN Failed(t, "constraint")
       ELSE /\ h.seq < MaxHistory
            /\ Executed(t, "executed", th[t].arg,
                  [v EXCEPT !.price_history =
                     [rows |-> Append(h.rows,
                                  [id |-> h.seq + 1, product_id |-> i,
                                   price |-> th[t].arg.price]),
                      seq |-> h.seq + 1]])

\* a hard delete that leaves the rows of the other tables alone
DeletedKeepingHistory(v, i) == [v EXCEPT !.db.rows = Without(v.db.rows, i)]

\* line 520: DELETE FROM products WHERE id = ?; the rows of price_history
\* and hot_comments that reference the product go with it (ON DELETE
\* CASCADE, lines 203 and 221)
Deleted(v, i) ==
    [db |-> [v.db EXCEPT !.rows = Without(v.db.rows, i)],
     price_history |->
         [v.price_history EXCEPT
             !.rows = SelectSeq(@, LAMBDA r : r.product_id # i)],
     hot_comments |-> SelectSeq(v.hot_comments, LAMBDA p : p # i)]

\* lines 517-520: is_active = 0, or DELETE
DeleteRow(t) ==
    LET v == View(th[t].conn)
        i == th[t].arg.id IN
    /\ th[t].pc = "body"
    /\ th[t].op = "delete_product"
    /\ Executed(t, "executed", th[t].arg,
                IF i \notin DOMAIN v.db.rows THEN v
                ELSE IF th[t].arg.soft
                THEN [v EXCEPT !.db.rows[i].active = FALSE]
                ELSE Deleted(v, i))

\* lines 543-557: INSERT INTO hot_comments; the foreign key fails when no
\* product has that id
InsertComment(t) ==
    LET v == View(th[t].conn)
        i == th[t].arg.id IN
    /\ th[t].pc = "body"
    /\ th[t].op = "insert_hot_comment"
    /\ IF i \notin DOMAIN v.db.rows THEN Failed(t, "constraint")
       ELSE /\ Len(v.hot_comments) < MaxComments
            /\ Executed(t, "executed", th[t].arg,
                        [v EXCEPT !.hot_comments = Append(@, i)])

\* a writing statement waited for the transaction of another connection
\* for the whole busy timeout (line 72): database is locked
Locked(t) ==
    /\ \/ th[t].pc \in {"selected", "updated"}
       \/ th[t].pc = "body" /\ th[t].op # "insert_product"
    /\ ~CanWrite(th[t].conn)
    /\ th' = [th EXCEPT ![t] = [@ EXCEPT !.pc = "failed",
                                         !.arg.err = "locked"]]
    /\ UNCHANGED <<pool_size, pool, queue, open, dirty, shut, storeVars,
                   txVars>>

\* a scope exit that leaves the transaction of the connection open
NotRolledBack(c) == tx

\* lines 90-93: conn.rollback() in the except clause of get_connection
RolledBack(c) == [x \in (DOMAIN tx) \ {c} |-> tx[x]]

\* conn.commit(), the method returns, the connection goes back on the queue
CommitAndReturn(t) ==
    LET c == th[t].conn IN
    /\ th[t].pc = "executed"
    /\ db' = tx[c].db
    /\ price_history' = tx[c].price_history
    /\ hot_comments' = tx[c].hot_comments
    /\ tx' = [x \in (DOMAIN tx) \ {c} |-> tx[x]]
    /\ dirty' = dirty \ {c}
    /\ queue' = [queue EXCEPT ![th[t].pool] = PutBack(@, c)]
    /\ th' = [th EXCEPT ![t] = [@ EXCEPT !.pc = "idle", !.conn = NoConn,
                                         !.arg = NoArg, !.out = "returned"]]
    /\ UNCHANGED <<pool_size, pool, open, shut, backups, snap>>

\* the exception of a statement leaves the with-block: rollback, the
\* connection goes back on the queue, the method logs and re-raises
RollbackAndRaise(t) ==
    LET c == th[t].conn IN
    /\ th[t].pc = "failed"
    /\ tx' = RolledBack(c)
    /\ dirty' = DOMAIN tx'
    /\ queue' = [queue EXCEPT ![th[t].pool] = PutBack(@, c)]
    /\ th' = [th EXCEPT ![t] = [@ EXCEPT !.pc = "idle", !.conn = NoConn,
                                         !.err = th[t].arg.err,
                                         !.out = "raised"]]
    /\ UNCHANGED <<pool_size, pool, open, shut, storeVars, price_history,
                   hot_comments>>

\* a pool of MaxPoolSize connections, the tables empty
InitTxSpec ==
    /\ InitCoordinator
    /\ enabled = [p \in Platforms |-> TRUE]
    /\ InitSaved
    /\ InitLater
    /\ InitStorage(MaxPoolSize)

NextTx ==
    \/ (\E t \in Threads, rec \in TxRecords :
          TxCall(t, "insert_product",
                 [rec |-> rec, existing |-> 0, err |-> "none"]))
          /\ UNCHANGED offTx
    \/ (\E t \in {Client}, i \in 1..MaxIds, price \in TxPrices :
          TxCall(t, "update_product_price",
                 [id |-> i, price |-> price, err |-> "none"]))
          /\ UNCHANGED offTx
    \/ (\E t \in {Client}, i \in 1..MaxIds, soft \in BOOLEAN :
          TxCall(t, "delete_product",
                 [id |-> i, soft |-> soft, err |-> "none"]))
          /\ UNCHANGED offTx
    \/ (\E t \in {Client}, i \in 1..MaxIds :
          TxCall(t, "insert_hot_comment", [id |-> i, err |-> "none"]))
          /\ UNCHANGED offTx
    \/ (\E t \in Threads : Acquire(t)) /\ UNCHANGED <<offTx, txVars>>
    \/ (\E t \in Threads : SelectExisting(t)) /\ UNCHANGED offTx
    \/ (\E t \in Threads : WriteProduct(t)) /\ UNCHANGED offTx
    \/ (\E t \in Threads : UpdatePrice(t)) /\ UNCHANGED offTx
    \/ (\E t \in Threads : RecordPrice(t)) /\ UNCHANGED offTx
    \/ (\E t \in Threads : DeleteRow(t)) /\ UNCHANGED offTx
    \/ (\E t \in Threads : InsertComment(t)) /\ UNCHANGED offTx
    \/ (\E t \in Threads : Locked(t)) /\ UNCHANGED offTx
    \/ (\E t \in Threads : CommitAndReturn(t)) /\ UNCHANGED offTx
    \/ (\E t \in Threads : RollbackAndRaise(t)) /\ UNCHANGED offTx

SpecTx == InitTxSpec /\ [][NextTx]_vars

\* C32: price_history is append-only: no step of insert_product,
\* update_product_price, delete_product (soft or hard) or insert_hot_comment
\* removes or changes a committed price_history row.
C32_PriceHistoryAppendOnly ==
    [][\A i \in DOMAIN price_history.rows :
          \E j \in DOMAIN price_history'.rows :
              price_history'.rows[j] = price_history.rows[i]]_vars

\* C33: no committed product row has a price that is a number <= 0 or a
\* rating that is a number outside [0, 5], whether the row was written by
\* the INSERT or the UPDATE of insert_product or by update_product_price.
C33_StoredRowsValid ==
    \A i \in DOMAIN db.rows :
        /\ ~PriceTrigger(db.rows[i])
        /\ ~RatingTrigger(db.rows[i])

\* C34: under every interleaving of insert_product calls on different
\* connections the products table has at most one row per product_url.
C34_OneRowPerUrl ==
    \A u \in 1..MaxUrls : Cardinality(IdsOfUrl(db, u)) <= 1

\* the step commits the transaction of a call that returns
CommitStep ==
    \E t \in Threads :
        /\ th[t].pc = "executed"
        /\ th'[t].pc = "idle"
        /\ th'[t].out = "returned"

\* C35: update_product_price is atomic. The committed tables change only in
\* the step that commits a returning call; when update_product_price
\* returns, the product has the new price and price_history has one more
\* row, of that product and price; when it raises, neither table has
\* changed; and either way its connection is back on the queue with no
\* transaction open.
C35_UpdatePriceAtomic ==
    [][/\ (db' # db \/ price_history' # price_history) => CommitStep
       /\ \A t \in Threads :
            (/\ th[t].op = "update_product_price"
             /\ th[t].conn # NoConn
             /\ th'[t].conn = NoConn) =>
                /\ th[t].conn \in Range(queue'[th[t].pool])
                /\ th[t].conn \notin DOMAIN tx'
                /\ th[t].conn \notin dirty'
                /\ th'[t].out = "returned" =>
                     /\ th[t].arg.id \in DOMAIN db'.rows
                     /\ db'.rows[th[t].arg.id].price = th[t].arg.price
                     /\ price_history'.rows =
                          Append(price_history.rows,
                                 [id |-> price_history.seq + 1,
                                  product_id |-> th[t].arg.id,
                                  price |-> th[t].arg.price])
                /\ th'[t].out = "raised" =>
                     /\ db' = db
                     /\ price_history' = price_history]_vars

\* update_product_price has raised for a product that exists: the INSERT
\* into price_history failed after the UPDATE had run, and the price of the
\* product is still a number
C35_Witness ==
    /\ th[Client].op = "update_product_price"
    /\ th[Client].pc = "idle"
    /\ th[Client].out = "raised"
    /\ th[Client].err = "constraint"
    /\ th[Client].arg.price = Null
    /\ th[Client].arg.id \in DOMAIN db.rows
    /\ db.rows[th[Client].arg.id].price # Null
    /\ tx = <<>>
    /\ Len(queue[pool]) = pool_size

\* --------------------------------- scrape_all_platforms: reports (main.py)
\* scrape_all_platforms has ended, by a return or by an exception
ScrapeAllEnded ==
    /\ scr.op = "scrape_all_platforms"
    /\ scr.pc \in {"returned", "raised"}

\* C36: after scrape_all_platforms has returned, the statistics table has a
\* row written by the call, for today and for every enabled platform, that
\* counts the platform's tasks of the run.
C36_StatisticsRowPerEnabledPlatform ==
    (scr.op = "scrape_all_platforms" /\ scr.pc = "returned") =>
        \A p \in Platforms :
            enabled[p] =>
               \E k \in DOMAIN statisticsTable :
                   /\ k > Len(scr.before)
                   /\ statisticsTable[k].platform = p
                   /\ statisticsTable[k].date = Today(now)
                   /\ statisticsTable[k].total_tasks = Len(FiledUnder(p))

\* C37: the record list of a platform that _integrate_data hands to
\* merge_platform_data has no two records of the same product_id.
C37_IntegratedListHasNoDuplicateIds ==
    ScrapeAllEnded =>
        \A p \in Platforms :
            LET all_products == PlatformData(GroupByPlatform(results), p) IN
            \A i, j \in DOMAIN all_products :
                all_products[i].product_id = all_products[j].product_id
                    => i = j

\* C38: scrape_all_platforms returns the grouped Results whenever its batch
\* has been executed, whether or not reports/ existed before the call.
C38_ReturnsWithoutReportsDirectory ==
    ScrapeAllEnded =>
        /\ scr.pc = "returned"
        /\ scr.ret = GroupByPlatform(results)

\* ------------------------------- waiting for a connection (database.py)
\* Every storage method has one with-block on self.pool.get_connection()
\* and calls no other storage method inside it (create_backup opens its
\* second connection with sqlite3.connect, not from the pool); the
\* auto-backup thread calls create_backup like any other caller. The
\* callers are threads of the interpreter: one that can take a step is
\* scheduled in the end, its get returns or times out, its body ends.
\* The manager is not closed and no backup is restored meanwhile.
WaitMethods == {"get_products", "insert_product", "create_backup"}

InitWait ==
    /\ InitCoordinator
    /\ enabled = [p \in Platforms |-> TRUE]
    /\ InitSaved
    /\ InitLater
    /\ \E n \in 1..MaxPoolSize : InitStorage(n)

\* the steps of a caller inside a storage method
WaitThread(t) ==
    \/ Acquire(t) /\ UNCHANGED offStorage
    \/ AcquireTimeout(t) /\ UNCHANGED offStorage
    \/ Execute(t) /\ UNCHANGED offStorage
    \/ ExitOk(t) /\ UNCHANGED offStorage
    \/ ExitRaise(t) /\ UNCHANGED offStorage

NextWait ==
    \/ (\E t \in Threads, op \in WaitMethods : Call(t, op))
          /\ UNCHANGED offStorage
    \/ (\E t \in Threads : WaitThread(t))

SpecWait == InitWait /\ [][NextWait]_vars
SpecWaitFair == SpecWait /\ \A t \in Threads : WF_vars(WaitThread(t))

\* C39, as claimed: every caller blocked in get_connection eventually
\* obtains a connection.
C39_BlockedCallerObtainsConnection ==
    \A t \in Threads : (th[t].pc = "acquire") ~> (th[t].conn # NoConn)

\* C39, amended: no caller holds a connection while it waits for one, and
\* every caller in get_connection eventually leaves it, with a connection
\* or, when the queue stayed empty for the timeout, with the RuntimeError of
\* the exhausted pool: no caller waits forever.
C39_NoCallerWaitsForever ==
    /\ [](\A t \in Threads : th[t].pc = "acquire" => th[t].conn = NoConn)
    /\ \A t \in Threads : (th[t].pc = "acquire") ~> (th[t].pc # "acquire")

\* on a pool of one connection a caller has timed out in get_connection
\* while the other caller holds the connection
C39_Witness ==
    /\ pool_size = 1
    /\ ~shut
    /\ \E t, u \in Threads :
          /\ th[t].pc = "idle"
          /\ th[t].err = "exhausted"
          /\ th[u].conn # NoConn

====
